---- MODULE Spec2Model ----
(***************************************************************************)
(* A model of the reconciliation service: the CSV ingestion of the ledger  *)
(* ("system") feed and of the bank statement feeds, sequential and         *)
(* concurrent (producer / worker pool / closer / collector over buffered   *)
(* channels), and the multi-strategy matcher.                              *)
(*                                                                         *)
(* Conventions.  Strings of the CSV file stay strings; parsing is a table  *)
(* from the raw text to a value or to a parse error.  A time.Time is the   *)
(* number of ticks since the zero time, DayTicks ticks to a day, so that   *)
(* Truncate(24h) is t - (t % DayTicks).  A decimal amount is an integer    *)
(* number of cents.  Go indexes from 0, TLA+ sequences from 1: a column    *)
(* index of the model is the Go index plus one.                            *)
(***************************************************************************)
EXTENDS Integers, Sequences, FiniteSets, TLC

\* ------------------------------------------------------------------ bounds
MaxRows == 3
MaxWorkers == 2
MaxBatch == 2
MaxSeqRows == 2
MaxLedger == 2
MaxStatements == 2
MaxStrategies == 2
MaxLedgerRows == 2
MaxBankRows == 1
MaxContenders == 3
MaxCandidates == 2
MaxThreshold == 1
MaxBuffer == 1

\* 24 * time.Hour, in ticks
DayTicks == 2

\* ------------------------------------------------------------- sequences
Range(s) == {s[i] : i \in DOMAIN s}

SeqsUpTo(S, n) == UNION {[1..k -> S] : k \in 0..n}

RECURSIVE Flatten(_)
Flatten(ss) == IF ss = <<>> THEN <<>> ELSE Head(ss) \o Flatten(Tail(ss))

\* the collection of the elements of a sequence, order ignored, each with
\* its number of occurrences
BagOf(s) == [x \in Range(s) |-> Cardinality({i \in DOMAIN s : s[i] = x})]

\* ------------------------------------------------------------ raw parsing
NoTime == -1

\* time.Parse(dateFormat, text): the ticks of a well-formed text, NoTime for
\* a text the format rejects.  "dXtY" is day X, time of day Y.
ParseTime(text) ==
    CASE text = "d0t1" -> 0 * DayTicks + 1
      [] text = "d1t0" -> 1 * DayTicks + 0
      [] text = "d1t1" -> 1 * DayTicks + 1
      [] text = "d2t0" -> 2 * DayTicks + 0
      [] text = "d2t1" -> 2 * DayTicks + 1
      [] text = "d3t0" -> 3 * DayTicks + 0
      [] OTHER -> NoTime

\* decimal.NewFromString(text): <<TRUE, cents>> or <<FALSE, 0>>
ParseAmount(text) ==
    CASE text = "100" -> <<TRUE, 100>>
      [] text = "-100" -> <<TRUE, -100>>
      [] text = "50" -> <<TRUE, 50>>
      [] text = "-50" -> <<TRUE, -50>>
      [] text = "101" -> <<TRUE, 101>>
      [] OTHER -> <<FALSE, 0>>

\* t.Truncate(24 * time.Hour)
Truncate(t) == t - (t % DayTicks)

\* domain.Debit, domain.Credit
Debit == "DEBIT"
Credit == "CREDIT"

\* ------------------------------------------------------------ CSV header
systemHeaderFields == <<"trxID", "amount", "type", "transactionTime">>
bankHeaderFields == <<"unique_identifier", "amount", "date">>

\* the simple case folding strings.EqualFold compares under
Lower(s) ==
    CASE s \in {"trxID", "TRXID", "trxid"} -> "trxid"
      [] s \in {"amount", "AMOUNT", "Amount"} -> "amount"
      [] s \in {"type", "Type", "TYPE"} -> "type"
      [] s \in {"transactionTime", "TRANSACTIONTIME", "transactiontime"} -> "transactiontime"
      [] s \in {"unique_identifier", "Unique_Identifier"} -> "unique_identifier"
      [] s \in {"date", "Date", "DATE"} -> "date"
      [] OTHER -> s

EqualFoldMutant(a, b) == a = b

EqualFold(a, b) == Lower(a) = Lower(b)

\* the index of the first header field that folds to column, 0 when none
FirstIndex(header, column) ==
    LET hits == {i \in DOMAIN header : EqualFold(column, header[i])}
    IN  IF hits = {} THEN 0 ELSE CHOOSE i \in hits : \A j \in hits : i <= j

\* crateHeaderMap: <<TRUE, columnMap>>, or <<FALSE, _>> when an expected
\* column is not in the header
crateHeaderMap(header, expectedHeader) ==
    LET columnMap == [c \in Range(expectedHeader) |-> FirstIndex(header, c)]
    IN  IF \E c \in Range(expectedHeader) : columnMap[c] = 0
        THEN <<FALSE, columnMap>>
        ELSE <<TRUE, columnMap>>

\* the highest column index needed
MaxIndex(columnMap) ==
    LET idx == {0} \cup {columnMap[c] : c \in DOMAIN columnMap}
    IN  CHOOSE m \in idx : \A i \in idx : i <= m

\* --------------------------------------------------------------- the file
\* A CSV file: its header record, its data records (each a sequence of raw
\* fields) and whether the underlying read fails once the records are
\* exhausted (an I/O fault instead of io.EOF).  An empty file has no header.

\* csv.Reader.Read on the record at pos (1 = first data record).  The reader
\* is built by csv.NewReader and left with FieldsPerRecord = 0, so the header
\* fixes the field count and a record of another length is ErrFieldCount.
csvRead(file, pos) ==
    IF pos > Len(file.rows)
    THEN IF file.ioFault THEN [kind |-> "err", record |-> <<>>]
                         ELSE [kind |-> "EOF", record |-> <<>>]
    ELSE IF Len(file.rows[pos]) # Len(file.header)
         THEN [kind |-> "err", record |-> file.rows[pos]]
         ELSE [kind |-> "record", record |-> file.rows[pos]]

\* ------------------------------------------------------- typed records
SystemTransaction(id, amount, type, time) ==
    [TrxID |-> id, Amount |-> amount, Type |-> type, TransactionTime |-> time]

BankTransaction(id, amount, date, bank) ==
    [UniqID |-> id, Amount |-> amount, Date |-> date, BankID |-> bank]

\* the day comparison both ingestion modes and the service use
InRangeMutant(t, startDate, endDate) == startDate <= t /\ t <= endDate

InRange(t, startDate, endDate) ==
    LET txnDay == Truncate(t)
        startDay == Truncate(startDate)
        endDay == Truncate(endDate)
    IN  (txnDay = startDay \/ txnDay > startDay) /\ (txnDay = endDay \/ txnDay < endDay)

\* ------------------------------------------------- sequential ingestion
\* rowProcessorFn of CSVSystemRepository.GetTransactionsInRange: the parsed
\* record as a one-element sequence, or <<>> for a row that is skipped
systemRowProcessorFn(columnMap, row) ==
    IF Len(row) < MaxIndex(columnMap) THEN <<>>
    ELSE LET txTime == ParseTime(row[columnMap["transactionTime"]])
             amount == ParseAmount(row[columnMap["amount"]])
             txnType == row[columnMap["type"]]
         IN  IF txTime = NoTime THEN <<>>
             ELSE IF ~amount[1] THEN <<>>
             ELSE IF txnType # Debit /\ txnType # Credit THEN <<>>
             ELSE <<SystemTransaction(row[columnMap["trxID"]], amount[2], txnType, txTime)>>

\* rowProcessorFn of CSVBankRepository.GetTransactionsInRange
bankRowProcessorFn(columnMap, bankID, row) ==
    IF Len(row) < MaxIndex(columnMap) THEN <<>>
    ELSE LET txDate == ParseTime(row[columnMap["date"]])
             amount == ParseAmount(row[columnMap["amount"]])
         IN  IF txDate = NoTime THEN <<>>
             ELSE IF ~amount[1] THEN <<>>
             ELSE <<BankTransaction(row[columnMap["unique_identifier"]], amount[2], txDate, bankID)>>

rowProcessorFn(kind, columnMap, bankID, row) ==
    IF kind = "system" THEN systemRowProcessorFn(columnMap, row)
                       ELSE bankRowProcessorFn(columnMap, bankID, row)

TxnTime(kind, txn) == IF kind = "system" THEN txn.TransactionTime ELSE txn.Date

\* CSVReader.ReadAndProcessByRow from the record at pos on, txns being what
\* the processor has appended so far: <<error, txns>>
RECURSIVE ReadAndProcessByRow(_, _, _, _, _, _)
ReadAndProcessByRow(kind, file, columnMap, bankID, pos, txns) ==
    LET rd == csvRead(file, pos)
    IN  IF rd.kind = "EOF" THEN <<"nil", txns>>
        ELSE IF rd.kind = "err" THEN <<"reading CSV row", txns>>
        ELSE ReadAndProcessByRow(kind, file, columnMap, bankID, pos + 1,
                                 txns \o rowProcessorFn(kind, columnMap, bankID, rd.record))

HeaderFields(kind) == IF kind = "system" THEN systemHeaderFields ELSE bankHeaderFields

\* an ingestion that returns the records from the last read to the first
GetTransactionsInRangeMutant(kind, file, bankID, startDate, endDate) ==
    IF file.header = <<>>
    THEN [txns |-> <<>>, err |-> "reading header"]
    ELSE LET hm == crateHeaderMap(file.header, HeaderFields(kind))
         IN  IF ~hm[1]
             THEN [txns |-> <<>>, err |-> "mapping CSV column"]
             ELSE LET rd == ReadAndProcessByRow(kind, file, hm[2], bankID, 1, <<>>)
                      kept == SelectSeq(rd[2],
                                  LAMBDA txn : InRange(TxnTime(kind, txn), startDate, endDate))
                  IN  IF rd[1] # "nil"
                      THEN [txns |-> <<>>, err |-> rd[1]]
                      ELSE [txns |-> [i \in 1..Len(kept) |-> kept[Len(kept) + 1 - i]],
                            err |-> "nil"]

\* CSVSystemRepository.GetTransactionsInRange and
\* CSVBankRepository.GetTransactionsInRange: [txns, err]
GetTransactionsInRange(kind, file, bankID, startDate, endDate) ==
    IF file.header = <<>>
    THEN [txns |-> <<>>, err |-> "reading header"]
    ELSE LET hm == crateHeaderMap(file.header, HeaderFields(kind))
         IN  IF ~hm[1]
             THEN [txns |-> <<>>, err |-> "mapping CSV column"]
             ELSE LET rd == ReadAndProcessByRow(kind, file, hm[2], bankID, 1, <<>>)
                  IN  IF rd[1] # "nil"
                      THEN [txns |-> <<>>, err |-> rd[1]]
                      ELSE [txns |-> SelectSeq(rd[2],
                                       LAMBDA txn : InRange(TxnTime(kind, txn), startDate, endDate)),
                            err |-> "nil"]

\* ------------------------------------------------------------- the inputs
\* a logical row laid out under a header: field i is the value of the
\* column the header names at i, "x" for a column the feed does not know
Layout(rec, header) ==
    [i \in 1..Len(header) |->
        IF Lower(header[i]) \in DOMAIN rec THEN rec[Lower(header[i])] ELSE "x"]

\* the same row with its last field missing
Shorten(row) == SubSeq(row, 1, Len(row) - 1)

SysRow(id, amount, type, time) ==
    [trxid |-> id, amount |-> amount, type |-> type, transactiontime |-> time]

BankRow(id, amount, date) ==
    [unique_identifier |-> id, amount |-> amount, date |-> date]

SystemRows ==
    { SysRow("T1", "100", "DEBIT", "d1t0"),
      SysRow("T2", "50", "CREDIT", "d2t1"),
      SysRow("T3", "100", "CREDIT", "d3t0"),
      SysRow("T4", "100", "DEBIT", "2025-13-01"),
      SysRow("T5", "abc", "DEBIT", "d1t1"),
      SysRow("T6", "100", "debit", "d2t0") }

BankRows ==
    { BankRow("S1", "-100", "d1t0"),
      BankRow("S2", "50", "d2t1"),
      BankRow("S3", "100", "d3t0"),
      BankRow("S4", "100", "15/01/2025"),
      BankRow("S5", "1e", "d1t0") }

SystemHeaders ==
    { systemHeaderFields,
      <<"TRANSACTIONTIME", "note", "Type", "AMOUNT", "trxid">>,
      <<"trxID", "amount", "type">>,
      <<"trxID", "amount", "kind", "transactionTime">>,
      <<>> }

BankHeaders ==
    { bankHeaderFields,
      <<"Date", "AMOUNT", "note", "Unique_Identifier">>,
      <<"unique_identifier", "date">>,
      <<>> }

\* the physical records a file with this header can hold: every logical row
\* laid out under the header, and one row that lacks its last field
RecordsUnder(kind, header) ==
    LET rows == {Layout(r, header) : r \in IF kind = "system" THEN SystemRows ELSE BankRows}
        first == Layout(IF kind = "system" THEN SysRow("T1", "100", "DEBIT", "d1t0")
                                           ELSE BankRow("S1", "-100", "d1t0"), header)
    IN  rows \cup {Shorten(first)}

Files(kind, headers, n) ==
    UNION { IF h = <<>>
            THEN {[header |-> h, rows |-> <<>>, ioFault |-> FALSE]}
            ELSE {[header |-> h, rows |-> rs, ioFault |-> f] :
                    rs \in SeqsUpTo(RecordsUnder(kind, h), n), f \in BOOLEAN}
          : h \in headers }

Times == 0 .. (4 * DayTicks - 1)

\* ---------------------------------------------------------------- state
VARIABLES
    kind,         \* "system": the ledger repository, "bank": a bank repository
    mode,         \* "seq": GetTransactionsInRange, "conc": ...Concurrently
    file,         \* the CSV file at r.FilePath
    bankID,       \* r.BankIdentifier
    numWorkers,   \* r.NumWorkers
    batchSize,    \* r.BatchSize
    startDate,    \* the arguments of the call
    endDate,
    pc,           \* the calling goroutine: "call", "collect", "check", "final", "returned"
    ret,          \* what the call returned: [txns, err]
    columnMap,    \* the resolved columns
    prod,         \* the producer goroutine: "off", "read", "send", "last", "fail", "close", "done"
    pos,          \* the next record the csv reader yields
    batch,        \* the producer's current batch
    sentJobs,     \* history: the batches the producer has sent on jobs, in send order
    takenJobs,    \* history: the batches the workers have received from jobs, in receive order
    jobs,         \* the jobs channel: the batches buffered in it
    jobsClosed,
    results,      \* the results channel
    resultsClosed,
    errChan,      \* the error channel
    wpc,          \* each worker goroutine: "off", "recv", "push", "done"
    wout,         \* each worker's batchResults
    wg,           \* the WaitGroup counter
    closer,       \* the goroutine that closes results: "off", "wait", "done"
    colBatch,     \* the batch the collector has just received
    txns,         \* the collector's accumulated records
    strategies,   \* the strategies given to NewDefaultMatcher
    systemTxns,   \* the arguments of FindMatches
    bankTxns,
    mpc,          \* "off", "call": FindMatches is to be called, "done": it returned,
                  \* "match": one strategy's Match is to be called, "matched": it returned,
                  \* "redone", "again": a second call on the same arguments returned
    matches,      \* what FindMatches returned
    picked,       \* what the strategy's Match returned
    systemRepo,   \* s.systemRepo: the CSV file of the ledger repository
    bankRepos,    \* s.bankRepos: the CSV file of each bank repository, by bank identifier
    dateBuffer,   \* s.dateBuffer
    svcStartDate, \* the arguments of Reconcile
    svcEndDate,
    rpc,          \* "off", "call": Reconcile is to be called, "returned": it returned;
                  \* step by step: "begin", "ledger", "banks", "bank", "match"
    visited,      \* the bank repositories the loop of Reconcile has come to
    result        \* what Reconcile returned: [res, err]

repoVars == <<kind, mode, file, bankID, numWorkers, batchSize, startDate, endDate>>
callVars == <<pc, ret, columnMap>>
prodVars == <<prod, pos, batch, sentJobs>>
chanVars == <<jobs, jobsClosed, results, resultsClosed, errChan>>
workVars == <<wpc, wout, wg, closer, takenJobs>>
collVars == <<colBatch, txns>>
matchVars == <<strategies, systemTxns, bankTxns, mpc, matches, picked>>
svcVars == <<systemRepo, bankRepos, dateBuffer, svcStartDate, svcEndDate, rpc, visited, result>>
vars == <<repoVars, callVars, prodVars, chanVars, workVars, collVars, matchVars, svcVars>>

Workers == 1 .. MaxWorkers

NoRet == [txns |-> <<>>, err |-> "none"]

NotFound == [found |-> FALSE, bankTxn |-> BankTransaction("", 0, 0, "")]

\* the state of a repository on which nothing has been called yet
Fresh ==
    /\ pc = "call"
    /\ ret = NoRet
    /\ columnMap = <<>>
    /\ prod = "off"
    /\ pos = 1
    /\ batch = <<>>
    /\ sentJobs = <<>>
    /\ takenJobs = <<>>
    /\ jobs = <<>>
    /\ jobsClosed = FALSE
    /\ results = <<>>
    /\ resultsClosed = FALSE
    /\ errChan = <<>>
    /\ wpc = [w \in Workers |-> "off"]
    /\ wout = [w \in Workers |-> <<>>]
    /\ wg = 0
    /\ closer = "off"
    /\ colBatch = <<>>
    /\ txns = <<>>

\* no matcher in play
NoMatcher ==
    /\ strategies = <<>> /\ systemTxns = <<>> /\ bankTxns = <<>>
    /\ mpc = "off" /\ matches = <<>> /\ picked = NotFound

\* no repository in play
NoRepository ==
    /\ kind = "system" /\ mode = "off" /\ bankID = ""
    /\ file = [header |-> <<>>, rows |-> <<>>, ioFault |-> FALSE]
    /\ numWorkers = 1 /\ batchSize = 1
    /\ startDate = 0 /\ endDate = 0
    /\ Fresh

\* domain.ReconciliationResult{}: the zero value, its slices and its map nil
EmptyResult ==
    [TotalTxnsProcessed |-> 0,
     MatchedTxns |-> <<>>,
     UnMatchedSystemTxns |-> <<>>,
     UnMatchedBankTxns |-> <<>>,
     TotalDiscrepancies |-> 0,
     Nil |-> {"MatchedTxns", "UnMatchedSystemTxns", "UnMatchedBankTxns"}]

\* no service in play
NoService ==
    /\ systemRepo = [header |-> <<>>, rows |-> <<>>, ioFault |-> FALSE]
    /\ bankRepos = <<>>
    /\ dateBuffer = 0
    /\ svcStartDate = 0 /\ svcEndDate = 0
    /\ rpc = "off"
    /\ visited = {}
    /\ result = [res |-> EmptyResult, err |-> <<"none">>]

\* ------------------------------------------------- concurrent ingestion
\* a worker that does not filter by date
systemWorkerRowMutant(cm, maxIndex, row, start, end) ==
    IF Len(row) < maxIndex THEN <<>>
    ELSE LET txTime == ParseTime(row[cm["transactionTime"]])
             amount == ParseAmount(row[cm["amount"]])
             txnType == row[cm["type"]]
         IN  IF txTime = NoTime THEN <<>>
             ELSE IF ~amount[1] THEN <<>>
             ELSE IF txnType # Debit /\ txnType # Credit THEN <<>>
             ELSE <<SystemTransaction(row[cm["trxID"]], amount[2], txnType, txTime)>>

\* one row in a worker of startWorkers: the record it appends to
\* batchResults as a one-element sequence, or <<>> when it continues
systemWorkerRow(cm, maxIndex, row, start, end) ==
    IF Len(row) < maxIndex THEN <<>>
    ELSE LET txTime == ParseTime(row[cm["transactionTime"]])
             amount == ParseAmount(row[cm["amount"]])
             txnType == row[cm["type"]]
         IN  IF txTime = NoTime THEN <<>>
             ELSE IF Truncate(txTime) < Truncate(start) \/ Truncate(txTime) > Truncate(end)
                  THEN <<>>
             ELSE IF ~amount[1] THEN <<>>
             ELSE IF txnType # Debit /\ txnType # Credit THEN <<>>
             ELSE <<SystemTransaction(row[cm["trxID"]], amount[2], txnType, txTime)>>

\* one row in a worker of startBankWorkers (startDate and endDate are
\* parameters of startBankWorkers that its body never reads)
bankWorkerRow(cm, maxIndex, bank, row, start, end) ==
    IF Len(row) < maxIndex THEN <<>>
    ELSE LET txDate == ParseTime(row[cm["date"]])
             amount == ParseAmount(row[cm["amount"]])
         IN  IF txDate = NoTime THEN <<>>
             ELSE IF ~amount[1] THEN <<>>
             ELSE <<BankTransaction(row[cm["unique_identifier"]], amount[2], txDate, bank)>>

\* the batchResults a worker builds from one batch
ProcessBatch(b) ==
    LET maxIndex == MaxIndex(columnMap)
    IN  Flatten([i \in 1..Len(b) |->
            IF kind = "system"
            THEN systemWorkerRow(columnMap, maxIndex, b[i], startDate, endDate)
            ELSE bankWorkerRow(columnMap, maxIndex, bankID, b[i], startDate, endDate)])

\* GetTransactionsInRangeConcurrently up to the start of the goroutines: the
\* header is read and mapped, then the channels are made, the workers, the
\* closer and the producer are started and the caller turns collector
StartConcurrently ==
    /\ mode = "conc" /\ pc = "call"
    /\ IF file.header = <<>>
       THEN /\ ret' = [txns |-> <<>>, err |-> "reading header"]
            /\ pc' = "returned"
            /\ UNCHANGED <<columnMap, prod, wpc, wg, closer>>
       ELSE LET hm == crateHeaderMap(file.header, HeaderFields(kind))
            IN  IF ~hm[1]
                THEN /\ ret' = [txns |-> <<>>, err |-> "mapping CSV column"]
                     /\ pc' = "returned"
                     /\ UNCHANGED <<columnMap, prod, wpc, wg, closer>>
                ELSE /\ columnMap' = hm[2]
                     /\ wpc' = [w \in Workers |-> IF w <= numWorkers THEN "recv" ELSE "off"]
                     /\ wg' = numWorkers
                     /\ closer' = "wait"
                     /\ prod' = "read"
                     /\ pc' = "collect"
                     /\ UNCHANGED ret
    /\ UNCHANGED <<svcVars, matchVars, repoVars, pos, batch, sentJobs, chanVars, wout, takenJobs, collVars>>

\* a producer that sends a batch only once it has grown beyond the batch size
ProducerReadMutant ==
    /\ prod = "read"
    /\ LET rd == csvRead(file, pos)
       IN  IF rd.kind = "EOF"
           THEN /\ prod' = IF Len(batch) > 0 THEN "last" ELSE "close"
                /\ UNCHANGED <<pos, batch>>
           ELSE IF rd.kind = "err"
           THEN /\ prod' = "fail"
                /\ UNCHANGED <<pos, batch>>
           ELSE /\ batch' = Append(batch, rd.record)
                /\ pos' = pos + 1
                /\ prod' = IF Len(batch') > batchSize THEN "send" ELSE "read"
    /\ UNCHANGED <<svcVars, matchVars, repoVars, callVars, sentJobs, chanVars, workVars, collVars>>

\* readAndDistribute...: one csvReader.Read() and what follows it up to the
\* next channel operation
ProducerRead ==
    /\ prod = "read"
    /\ LET rd == csvRead(file, pos)
       IN  IF rd.kind = "EOF"
           THEN /\ prod' = IF Len(batch) > 0 THEN "last" ELSE "close"
                /\ UNCHANGED <<pos, batch>>
           ELSE IF rd.kind = "err"
           THEN /\ prod' = "fail"
                /\ UNCHANGED <<pos, batch>>
           ELSE /\ batch' = Append(batch, rd.record)
                /\ pos' = pos + 1
                /\ prod' = IF Len(batch') >= batchSize THEN "send" ELSE "read"
    /\ UNCHANGED <<svcVars, matchVars, repoVars, callVars, sentJobs, chanVars, workVars, collVars>>

\* jobs <- batch, in the loop ("send") or after it ("last")
ProducerSend ==
    /\ prod \in {"send", "last"}
    /\ Len(jobs) < numWorkers
    /\ jobs' = Append(jobs, batch)
    /\ sentJobs' = Append(sentJobs, batch)
    /\ batch' = <<>>
    /\ prod' = IF prod = "send" THEN "read" ELSE "close"
    /\ UNCHANGED <<svcVars, matchVars, repoVars, callVars, pos, jobsClosed, results, resultsClosed, errChan,
                   workVars, collVars>>

\* errChan <- err
ProducerFail ==
    /\ prod = "fail"
    /\ Len(errChan) < numWorkers
    /\ errChan' = Append(errChan, "reading CSV record")
    /\ prod' = "close"
    /\ UNCHANGED <<svcVars, matchVars, repoVars, callVars, pos, batch, sentJobs, jobs, jobsClosed, results, resultsClosed,
                   workVars, collVars>>

\* the deferred close(jobs)
ProducerClose ==
    /\ prod = "close"
    /\ jobsClosed' = TRUE
    /\ prod' = "done"
    /\ UNCHANGED <<svcVars, matchVars, repoVars, callVars, pos, batch, sentJobs, jobs, results, resultsClosed, errChan,
                   workVars, collVars>>

\* a worker receives a batch from jobs and processes every row of it
WorkerRecv(w) ==
    /\ wpc[w] = "recv"
    /\ jobs # <<>>
    /\ jobs' = Tail(jobs)
    /\ takenJobs' = Append(takenJobs, Head(jobs))
    /\ LET batchResults == ProcessBatch(Head(jobs))
       IN  IF Len(batchResults) > 0
           THEN /\ wout' = [wout EXCEPT ![w] = batchResults]
                /\ wpc' = [wpc EXCEPT ![w] = "push"]
           ELSE UNCHANGED <<wout, wpc>>
    /\ UNCHANGED <<svcVars, matchVars, repoVars, callVars, prodVars, jobsClosed, results, resultsClosed, errChan,
                   wg, closer, collVars>>

\* results <- batchResults
WorkerPush(w) ==
    /\ wpc[w] = "push"
    /\ ~resultsClosed
    /\ Len(results) < numWorkers
    /\ results' = Append(results, wout[w])
    /\ wout' = [wout EXCEPT ![w] = <<>>]
    /\ wpc' = [wpc EXCEPT ![w] = "recv"]
    /\ UNCHANGED <<svcVars, matchVars, repoVars, callVars, prodVars, jobs, jobsClosed, resultsClosed, errChan,
                   wg, closer, takenJobs, collVars>>

\* the range over jobs ends (closed and drained) and the deferred wg.Done() runs
WorkerExit(w) ==
    /\ wpc[w] = "recv"
    /\ jobs = <<>> /\ jobsClosed
    /\ wpc' = [wpc EXCEPT ![w] = "done"]
    /\ wg' = wg - 1
    /\ UNCHANGED <<svcVars, matchVars, repoVars, callVars, prodVars, chanVars, wout, closer, takenJobs, collVars>>

\* a closer that closes results without waiting for the workers
CloseResultsMutant ==
    /\ closer = "wait"
    /\ resultsClosed' = TRUE
    /\ closer' = "done"
    /\ UNCHANGED <<svcVars, matchVars, repoVars, callVars, prodVars, jobs, jobsClosed, results, errChan,
                   wpc, wout, wg, takenJobs, collVars>>

\* wg.Wait() returns and close(results)
CloseResults ==
    /\ closer = "wait"
    /\ wg = 0
    /\ resultsClosed' = TRUE
    /\ closer' = "done"
    /\ UNCHANGED <<svcVars, matchVars, repoVars, callVars, prodVars, jobs, jobsClosed, results, errChan,
                   wpc, wout, wg, takenJobs, collVars>>

\* collectResults: the range over results yields a batch
CollectRecv ==
    /\ pc = "collect"
    /\ results # <<>>
    /\ colBatch' = Head(results)
    /\ results' = Tail(results)
    /\ pc' = "check"
    /\ UNCHANGED <<svcVars, matchVars, repoVars, ret, columnMap, prodVars, jobs, jobsClosed, resultsClosed,
                   errChan, workVars, txns>>

\* collectResults: the non-blocking select on errChan inside the loop
CollectCheck ==
    /\ pc = "check"
    /\ IF errChan # <<>>
       THEN /\ ret' = [txns |-> <<>>, err |-> Head(errChan)]
            /\ errChan' = Tail(errChan)
            /\ pc' = "returned"
            /\ UNCHANGED txns
       ELSE /\ txns' = txns \o colBatch
            /\ pc' = "collect"
            /\ UNCHANGED <<ret, errChan>>
    /\ UNCHANGED <<svcVars, matchVars, repoVars, columnMap, prodVars, jobs, jobsClosed, results, resultsClosed,
                   workVars, colBatch>>

\* a collector that stops ranging as soon as it finds results empty
CollectEndMutant ==
    /\ pc = "collect"
    /\ results = <<>>
    /\ pc' = "final"
    /\ UNCHANGED <<svcVars, matchVars, repoVars, ret, columnMap, prodVars, chanVars, workVars, collVars>>

\* collectResults: the range over results ends (closed and drained)
CollectEnd ==
    /\ pc = "collect"
    /\ results = <<>> /\ resultsClosed
    /\ pc' = "final"
    /\ UNCHANGED <<svcVars, matchVars, repoVars, ret, columnMap, prodVars, chanVars, workVars, collVars>>

\* a collector that returns what it gathered without the final look at errChan
CollectFinalMutant ==
    /\ pc = "final"
    /\ ret' = [txns |-> txns, err |-> "nil"]
    /\ pc' = "returned"
    /\ UNCHANGED <<svcVars, matchVars, repoVars, columnMap, prodVars, chanVars, workVars, collVars>>

\* collectResults: the final select on errChan, and the return
CollectFinal ==
    /\ pc = "final"
    /\ IF errChan # <<>>
       THEN /\ ret' = [txns |-> <<>>, err |-> Head(errChan)]
            /\ errChan' = Tail(errChan)
       ELSE /\ ret' = [txns |-> txns, err |-> "nil"]
            /\ UNCHANGED errChan
    /\ pc' = "returned"
    /\ UNCHANGED <<svcVars, matchVars, repoVars, columnMap, prodVars, jobs, jobsClosed, results, resultsClosed,
                   workVars, collVars>>

\* the sequential GetTransactionsInRange, one call
CallSequential ==
    /\ mode = "seq" /\ pc = "call"
    /\ ret' = GetTransactionsInRange(kind, file, bankID, startDate, endDate)
    /\ pc' = "returned"
    /\ UNCHANGED <<svcVars, matchVars, repoVars, columnMap, prodVars, chanVars, workVars, collVars>>

\* --------------------------------------------------------------- matcher
defaultAmountThreshold == 1
defaultDaysBuffer == 1

\* the strategies, each with the configuration its constructor stores
NewExactMatchStrategy == [name |-> "exact"]
NewFuzzyMatchStrategy(threshold) == [name |-> "fuzzy", AmountThreshold |-> threshold]
NewDateBufferMatchStrategy(bufferDays) == [name |-> "buffer", BufferDays |-> bufferDays]

\* NewDefaultMatcher: the strategies of the matcher it builds
NewDefaultMatcher(given) ==
    IF Len(given) = 0
    THEN << NewExactMatchStrategy,
            NewFuzzyMatchStrategy(defaultAmountThreshold),
            NewDateBufferMatchStrategy(defaultDaysBuffer) >>
    ELSE given

\* a normalization that keeps the stored amount whatever the type
getNormalizedAmountMutant(sysTxn) == sysTxn.Amount

\* getNormalizedAmount
getNormalizedAmount(sysTxn) ==
    IF sysTxn.Type = Debit THEN 0 - sysTxn.Amount ELSE sysTxn.Amount

Abs(x) == IF x < 0 THEN 0 - x ELSE x

\* the loop all three Match methods share: the first bank transaction, in
\* list order, among those that none of the strategy's checks skips
FirstMatch(passing) ==
    IF passing = <<>> THEN NotFound
    ELSE [found |-> TRUE, bankTxn |-> Head(passing)]

\* an exact strategy that compares the times, not the days
ExactMatchMutant(sysTxn, candidates) ==
    LET sysAmount == getNormalizedAmount(sysTxn)
        Skips(bankTxn) ==
            \/ bankTxn.Date # sysTxn.TransactionTime
            \/ bankTxn.Amount # sysAmount
    IN  FirstMatch(SelectSeq(candidates, LAMBDA bankTxn : ~Skips(bankTxn)))

\* ExactMatchStrategy.Match
ExactMatch(sysTxn, candidates) ==
    LET sysTxnDate == Truncate(sysTxn.TransactionTime)
        sysAmount == getNormalizedAmount(sysTxn)
        Skips(bankTxn) ==
            \/ Truncate(bankTxn.Date) # sysTxnDate
            \/ bankTxn.Amount # sysAmount
    IN  FirstMatch(SelectSeq(candidates, LAMBDA bankTxn : ~Skips(bankTxn)))

\* a fuzzy strategy that skips a difference equal to the threshold
FuzzyMatchMutant(s, sysTxn, candidates) ==
    LET sysTxnDate == Truncate(sysTxn.TransactionTime)
        sysAmount == getNormalizedAmount(sysTxn)
        Skips(bankTxn) ==
            \/ Truncate(bankTxn.Date) # sysTxnDate
            \/ Abs(sysAmount - bankTxn.Amount) >= s.AmountThreshold
    IN  FirstMatch(SelectSeq(candidates, LAMBDA bankTxn : ~Skips(bankTxn)))

\* FuzzyMatchStrategy.Match
FuzzyMatch(s, sysTxn, candidates) ==
    LET sysTxnDate == Truncate(sysTxn.TransactionTime)
        sysAmount == getNormalizedAmount(sysTxn)
        Skips(bankTxn) ==
            \/ Truncate(bankTxn.Date) # sysTxnDate
            \/ Abs(sysAmount - bankTxn.Amount) > s.AmountThreshold
    IN  FirstMatch(SelectSeq(candidates, LAMBDA bankTxn : ~Skips(bankTxn)))

\* a date-buffer strategy whose window leaves out its first and last day
DateBufferMatchMutant(s, sysTxn, candidates) ==
    LET sysAmount == getNormalizedAmount(sysTxn)
        minDate == Truncate(sysTxn.TransactionTime - s.BufferDays * DayTicks)
        maxDate == Truncate(sysTxn.TransactionTime + s.BufferDays * DayTicks)
        Skips(bankTxn) ==
            \/ Truncate(bankTxn.Date) <= minDate \/ Truncate(bankTxn.Date) >= maxDate
            \/ bankTxn.Amount # sysAmount
    IN  FirstMatch(SelectSeq(candidates, LAMBDA bankTxn : ~Skips(bankTxn)))

\* DateBufferMatchStrategy.Match
DateBufferMatch(s, sysTxn, candidates) ==
    LET sysAmount == getNormalizedAmount(sysTxn)
        minDate == Truncate(sysTxn.TransactionTime - s.BufferDays * DayTicks)
        maxDate == Truncate(sysTxn.TransactionTime + s.BufferDays * DayTicks)
        Skips(bankTxn) ==
            \/ Truncate(bankTxn.Date) < minDate \/ Truncate(bankTxn.Date) > maxDate
            \/ bankTxn.Amount # sysAmount
    IN  FirstMatch(SelectSeq(candidates, LAMBDA bankTxn : ~Skips(bankTxn)))

\* strategy.Match
Match(s, sysTxn, candidates) ==
    CASE s.name = "exact" -> ExactMatch(sysTxn, candidates)
      [] s.name = "fuzzy" -> FuzzyMatch(s, sysTxn, candidates)
      [] s.name = "buffer" -> DateBufferMatch(s, sysTxn, candidates)

\* fmt.Sprintf("%s-%s", bankTxn.BankID, bankTxn.UniqID)
MatchKey(bankTxn) == bankTxn.BankID \o "-" \o bankTxn.UniqID

\* the inner loop of FindMatches that filters out the matched bank transactions
AvailableBankTxnsMutant(all, matchedBankTxns) == all

AvailableBankTxns(all, matchedBankTxns) ==
    SelectSeq(all, LAMBDA bankTxn : MatchKey(bankTxn) \notin matchedBankTxns)

\* a strategy loop in which a later strategy that finds a match overrides an
\* earlier one
RECURSIVE TryStrategiesMutant(_, _, _, _)
TryStrategiesMutant(ss, sysTxn, all, matchedBankTxns) ==
    IF ss = <<>> THEN NotFound
    ELSE LET later == TryStrategiesMutant(Tail(ss), sysTxn, all, matchedBankTxns)
         IN  IF later.found THEN later
             ELSE Match(Head(ss), sysTxn, AvailableBankTxns(all, matchedBankTxns))

\* the strategy loop of FindMatches for one system transaction: the outcome
\* of the first strategy that finds a match, NotFound when none does
RECURSIVE TryStrategies(_, _, _, _)
TryStrategies(ss, sysTxn, all, matchedBankTxns) ==
    IF ss = <<>> THEN NotFound
    ELSE LET r == Match(Head(ss), sysTxn, AvailableBankTxns(all, matchedBankTxns))
         IN  IF r.found THEN r
             ELSE TryStrategies(Tail(ss), sysTxn, all, matchedBankTxns)

\* a Match whose discrepancy keeps its sign
NewMatchMutant(sysTxn, bankTxn) ==
    [SystemTxn |-> sysTxn, BankTxn |-> bankTxn,
     AmmountDiff |-> getNormalizedAmount(sysTxn) - bankTxn.Amount]

\* domain.Match as FindMatches builds it
NewMatch(sysTxn, bankTxn) ==
    [SystemTxn |-> sysTxn, BankTxn |-> bankTxn,
     AmmountDiff |-> Abs(getNormalizedAmount(sysTxn) - bankTxn.Amount)]

\* a strategy loop without its break: every strategy that finds a match
\* records one
RECURSIVE MatchesOfMutant(_, _, _, _)
MatchesOfMutant(ss, sysTxn, all, matchedBankTxns) ==
    IF ss = <<>> THEN <<>>
    ELSE LET r == Match(Head(ss), sysTxn, AvailableBankTxns(all, matchedBankTxns))
         IN  (IF r.found THEN <<NewMatch(sysTxn, r.bankTxn)>> ELSE <<>>)
             \o MatchesOfMutant(Tail(ss), sysTxn, all, matchedBankTxns \cup
                                (IF r.found THEN {MatchKey(r.bankTxn)} ELSE {}))

\* the body of the system transaction loop of FindMatches: the matches it
\* appends for one system transaction
MatchesOf(ss, sysTxn, all, matchedBankTxns) ==
    LET r == TryStrategies(ss, sysTxn, all, matchedBankTxns)
    IN  IF r.found THEN <<NewMatch(sysTxn, r.bankTxn)>> ELSE <<>>

\* the system transaction loop of FindMatches, from the state it is in
RECURSIVE FindMatchesFrom(_, _, _, _, _)
FindMatchesFrom(ss, rest, all, matchedBankTxns, acc) ==
    IF rest = <<>> THEN acc
    ELSE LET new == MatchesOf(ss, Head(rest), all, matchedBankTxns)
         IN  FindMatchesFrom(ss, Tail(rest), all,
                             matchedBankTxns \cup {MatchKey(new[i].BankTxn) : i \in DOMAIN new},
                             acc \o new)

\* DefaultMatcher.FindMatches
FindMatches(ss, sysTxns, bTxns) == FindMatchesFrom(ss, sysTxns, bTxns, {}, <<>>)

\* a call of FindMatches that takes the ledger records from the last to the first
CallFindMatchesMutant ==
    /\ mpc = "call"
    /\ matches' = FindMatches(NewDefaultMatcher(strategies),
                              [i \in 1..Len(systemTxns) |-> systemTxns[Len(systemTxns) + 1 - i]],
                              bankTxns)
    /\ mpc' = "done"
    /\ UNCHANGED <<strategies, systemTxns, bankTxns, picked>>
    /\ UNCHANGED <<svcVars, repoVars, callVars, prodVars, chanVars, workVars, collVars>>

\* one call of FindMatches on the matcher NewDefaultMatcher built
CallFindMatches ==
    /\ mpc = "call"
    /\ matches' = FindMatches(NewDefaultMatcher(strategies), systemTxns, bankTxns)
    /\ mpc' = "done"
    /\ UNCHANGED <<strategies, systemTxns, bankTxns, picked>>
    /\ UNCHANGED <<svcVars, repoVars, callVars, prodVars, chanVars, workVars, collVars>>

\* one call of the Match of one strategy
CallMatch ==
    /\ mpc = "match"
    /\ picked' = Match(strategies[1], systemTxns[1], bankTxns)
    /\ mpc' = "matched"
    /\ UNCHANGED <<strategies, systemTxns, bankTxns, matches>>
    /\ UNCHANGED <<svcVars, repoVars, callVars, prodVars, chanVars, workVars, collVars>>

\* a second call that finds the claimed set of the first call
CallFindMatchesAgainMutant ==
    /\ mpc = "done"
    /\ matches' = FindMatchesFrom(NewDefaultMatcher(strategies), systemTxns, bankTxns,
                                  {MatchKey(matches[m].BankTxn) : m \in DOMAIN matches}, <<>>)
    /\ mpc' = "redone"
    /\ UNCHANGED <<strategies, systemTxns, bankTxns, picked>>
    /\ UNCHANGED <<svcVars, repoVars, callVars, prodVars, chanVars, workVars, collVars>>

\* a second call of FindMatches on the same matcher and the same lists
CallFindMatchesAgain ==
    /\ mpc = "done"
    /\ matches' = FindMatches(NewDefaultMatcher(strategies), systemTxns, bankTxns)
    /\ mpc' = "redone"
    /\ UNCHANGED <<strategies, systemTxns, bankTxns, picked>>
    /\ UNCHANGED <<svcVars, repoVars, callVars, prodVars, chanVars, workVars, collVars>>

\* a second call of the Match of the same strategy on the same arguments
CallMatchAgain ==
    /\ mpc = "matched"
    /\ picked' = Match(strategies[1], systemTxns[1], bankTxns)
    /\ mpc' = "again"
    /\ UNCHANGED <<strategies, systemTxns, bankTxns, matches>>
    /\ UNCHANGED <<svcVars, repoVars, callVars, prodVars, chanVars, workVars, collVars>>

\* the ledger and statement records and the strategy lists the matcher is
\* run on
LedgerTxns ==
    { SystemTransaction(id, 100, type, ParseTime("d1t1")) :
        id \in {"T1", "T2"}, type \in {Debit, Credit} }

StatementIDs == {<<"a", "b-c">>, <<"a-b", "c">>, <<"b", "c">>}

StatementTxns ==
    { BankTransaction(id[2], ad[1], ParseTime(ad[2]), id[1]) :
        id \in StatementIDs, ad \in {<<100, "d1t0">>, <<101, "d1t0">>, <<-100, "d2t0">>} }

Strategies ==
    { NewExactMatchStrategy,
      NewFuzzyMatchStrategy(defaultAmountThreshold),
      NewDateBufferMatchStrategy(defaultDaysBuffer) }

Injective(s) == \A i, j \in DOMAIN s : i # j => s[i] # s[j]

StrategyLists == {s \in SeqsUpTo(Strategies, MaxStrategies) : Injective(s)}

\* the strategies, ledger records and candidate lists a single strategy is
\* run on
StrategyConfigs ==
    {NewExactMatchStrategy}
        \cup {NewFuzzyMatchStrategy(t) : t \in 0..MaxThreshold}
        \cup {NewDateBufferMatchStrategy(b) : b \in 0..MaxBuffer}

StrategyLedgerTxns ==
    { SystemTransaction("T1", 100, type, ParseTime(time)) :
        type \in {Debit, Credit}, time \in {"d1t1", "d2t0"} }

CandidateTxns ==
    { BankTransaction("S1", amount, ParseTime(date), "bank_abc") :
        amount \in {-101, -100, 100, 101, 102},
        date \in {"d0t1", "d1t0", "d1t1", "d2t1", "d3t0"} }

\* --------------------------------------------------------------- service
\* What a call of GetTransactionsInRangeConcurrently can return, as the set
\* of the outcomes of its interleavings.

\* the batches the producer sends: runs of bs consecutive rows, the last one
\* possibly shorter
RECURSIVE Batches(_, _)
Batches(rows, bs) ==
    IF rows = <<>> THEN <<>>
    ELSE IF Len(rows) <= bs THEN <<rows>>
    ELSE <<SubSeq(rows, 1, bs)>> \o Batches(SubSeq(rows, bs + 1, Len(rows)), bs)

\* the batchResults a worker builds from one batch
BatchResults(knd, cm, bank, b, start, end) ==
    Flatten([i \in 1..Len(b) |->
        IF knd = "system"
        THEN systemWorkerRow(cm, MaxIndex(cm), b[i], start, end)
        ELSE bankWorkerRow(cm, MaxIndex(cm), bank, b[i], start, end)])

\* the orders in which nw workers can push the results of n batches that
\* they receive in order: p[a] is the batch pushed a-th.  A worker pushes
\* the results of a batch before it receives another, so a batch is pushed
\* while at most nw - 1 earlier batches are still held by other workers.
PushOrders(n, nw) ==
    {p \in [1..n -> 1..n] :
        /\ \A a, c \in 1..n : a # c => p[a] # p[c]
        /\ \A a \in 1..n : Cardinality({c \in 1..n : c > a /\ p[c] < p[a]}) <= nw - 1}

\* GetTransactionsInRangeConcurrently of either repository: the [txns, err]
\* it can return.  A header or read error is returned whatever the
\* interleaving; without one the collector appends the non-empty batch
\* results in the order the workers pushed them.
ConcurrentOutcomes(knd, f, bank, start, end, nw, bs) ==
    IF f.header = <<>>
    THEN {[txns |-> <<>>, err |-> "reading header"]}
    ELSE LET hm == crateHeaderMap(f.header, HeaderFields(knd))
         IN  IF ~hm[1]
             THEN {[txns |-> <<>>, err |-> "mapping CSV column"]}
             ELSE IF \E at \in 1..(Len(f.rows) + 1) : csvRead(f, at).kind = "err"
             THEN {[txns |-> <<>>, err |-> "reading CSV record"]}
             ELSE LET sent == Batches(f.rows, bs)
                      all == [i \in 1..Len(sent) |->
                                 BatchResults(knd, hm[2], bank, sent[i], start, end)]
                      pushed == SelectSeq(all, LAMBDA batchResults : Len(batchResults) > 0)
                  IN  {[txns |-> Flatten([a \in 1..Len(pushed) |-> pushed[p[a]]]), err |-> "nil"] :
                          p \in PushOrders(Len(pushed), nw)}

\* t.AddDate(0, 0, days)
AddDate(t, days) == t + days * DayTicks

\* the day comparison of filterMatchesByDateRange and of the two
\* findUnmatched... functions
InRequestedRange(t, start, end) ==
    LET txnDay == Truncate(t)
        startDay == Truncate(start)
        endDay == Truncate(end)
    IN  (txnDay = startDay \/ txnDay > startDay) /\ (txnDay = endDay \/ txnDay < endDay)

\* a narrowing that keeps every Match
filterMatchesByDateRangeMutant(ms, start, end) == ms

\* filterMatchesByDateRange
filterMatchesByDateRange(ms, start, end) ==
    SelectSeq(ms, LAMBDA match :
        InRequestedRange(match.SystemTxn.TransactionTime, start, end))

\* a listing of the unmatched ledger records that does not look at their date
findUnmatchedSystemTransactionsMutant(sysTxns, ms, start, end) ==
    LET matchedIDs == {ms[i].SystemTxn.TrxID : i \in DOMAIN ms}
    IN  SelectSeq(sysTxns, LAMBDA txn : txn.TrxID \notin matchedIDs)

\* findUnmatchedSystemTransactions
findUnmatchedSystemTransactions(sysTxns, ms, start, end) ==
    LET matchedIDs == {ms[i].SystemTxn.TrxID : i \in DOMAIN ms}
    IN  SelectSeq(sysTxns, LAMBDA txn :
            /\ txn.TrxID \notin matchedIDs
            /\ InRequestedRange(txn.TransactionTime, start, end))

\* a list of unmatched statement records that leaves the Matches out of account
findUnmatchedBankTransactionsMutant(bTxns, ms, start, end) ==
    LET kept == SelectSeq(bTxns, LAMBDA txn : InRequestedRange(txn.Date, start, end))
    IN  [b \in {kept[i].BankID : i \in DOMAIN kept} |->
            SelectSeq(kept, LAMBDA txn : txn.BankID = b)]

\* findUnmatchedBankTransactions: the map from a bank identifier to its
\* unmatched transactions; a bank without any has no key
findUnmatchedBankTransactions(bTxns, ms, start, end) ==
    LET matchedIDs == {MatchKey(ms[i].BankTxn) : i \in DOMAIN ms}
        kept == SelectSeq(bTxns, LAMBDA txn :
                    /\ MatchKey(txn) \notin matchedIDs
                    /\ InRequestedRange(txn.Date, start, end))
    IN  [b \in {kept[i].BankID : i \in DOMAIN kept} |->
            SelectSeq(kept, LAMBDA txn : txn.BankID = b)]

\* calculateTotalDiscrepancies
RECURSIVE calculateTotalDiscrepancies(_)
calculateTotalDiscrepancies(ms) ==
    IF ms = <<>> THEN 0
    ELSE Head(ms).AmmountDiff + calculateTotalDiscrepancies(Tail(ms))

\* a count that keeps the length of one bank's list instead of adding it
countBankTransactionsMutant(txnsByBank) ==
    IF DOMAIN txnsByBank = {} THEN 0
    ELSE Len(txnsByBank[CHOOSE b \in DOMAIN txnsByBank : TRUE])

\* countBankTransactions
RECURSIVE countBankTransactions(_)
countBankTransactions(txnsByBank) ==
    IF DOMAIN txnsByBank = {} THEN 0
    ELSE LET b == CHOOSE x \in DOMAIN txnsByBank : TRUE
         IN  Len(txnsByBank[b]) +
             countBankTransactions([x \in DOMAIN txnsByBank \ {b} |-> txnsByBank[x]])

\* a loop that skips a repository that fails
RECURSIVE GatherBankTxnsMutant(_, _, _)
GatherBankTxnsMutant(order, outs, allBankTxns) ==
    IF order = <<>> THEN [txns |-> allBankTxns, err |-> "nil"]
    ELSE IF outs[Head(order)].err # "nil"
         THEN GatherBankTxnsMutant(Tail(order), outs, allBankTxns)
         ELSE GatherBankTxnsMutant(Tail(order), outs, allBankTxns \o outs[Head(order)].txns)

\* the loop of Reconcile over s.bankRepos, the repositories being visited
\* in this order and returning these outcomes: all their transactions, or
\* the error of the first one that fails
RECURSIVE GatherBankTxns(_, _, _)
GatherBankTxns(order, outs, allBankTxns) ==
    IF order = <<>> THEN [txns |-> allBankTxns, err |-> "nil"]
    ELSE IF outs[Head(order)].err # "nil"
         THEN [txns |-> <<>>, err |-> outs[Head(order)].err]
         ELSE GatherBankTxns(Tail(order), outs, allBankTxns \o outs[Head(order)].txns)

\* the orders in which a range over a Go map can visit these keys
VisitOrders(keys) ==
    {o \in [1..Cardinality(keys) -> keys] : \A i, j \in DOMAIN o : i # j => o[i] # o[j]}

\* a result whose total discrepancy is summed over the Matches before they
\* are narrowed
BuildResultMutant(ms, sysTxns, allBankTxns, start, end) ==
    LET filteredMatches == filterMatchesByDateRange(ms, start, end)
        unmatchedSystemTxns ==
            findUnmatchedSystemTransactions(sysTxns, filteredMatches, start, end)
        unmatchedBankTxns ==
            findUnmatchedBankTransactions(allBankTxns, filteredMatches, start, end)
    IN  [TotalTxnsProcessed |->
            Len(filteredMatches) + Len(unmatchedSystemTxns)
                + countBankTransactions(unmatchedBankTxns),
         MatchedTxns |-> filteredMatches,
         UnMatchedSystemTxns |-> unmatchedSystemTxns,
         UnMatchedBankTxns |-> unmatchedBankTxns,
         TotalDiscrepancies |-> calculateTotalDiscrepancies(ms),
         Nil |-> (IF filteredMatches = <<>> THEN {"MatchedTxns"} ELSE {})
                    \cup (IF unmatchedSystemTxns = <<>> THEN {"UnMatchedSystemTxns"} ELSE {})]

\* the ReconciliationResult Reconcile builds once the matcher has returned;
\* Nil lists the slices that stay nil because nothing was appended to them
BuildResult(ms, sysTxns, allBankTxns, start, end) ==
    LET filteredMatches == filterMatchesByDateRange(ms, start, end)
        unmatchedSystemTxns ==
            findUnmatchedSystemTransactions(sysTxns, filteredMatches, start, end)
        unmatchedBankTxns ==
            findUnmatchedBankTransactions(allBankTxns, filteredMatches, start, end)
    IN  [TotalTxnsProcessed |->
            Len(filteredMatches) + Len(unmatchedSystemTxns)
                + countBankTransactions(unmatchedBankTxns),
         MatchedTxns |-> filteredMatches,
         UnMatchedSystemTxns |-> unmatchedSystemTxns,
         UnMatchedBankTxns |-> unmatchedBankTxns,
         TotalDiscrepancies |-> calculateTotalDiscrepancies(filteredMatches),
         Nil |-> (IF filteredMatches = <<>> THEN {"MatchedTxns"} ELSE {})
                    \cup (IF unmatchedSystemTxns = <<>> THEN {"UnMatchedSystemTxns"} ELSE {})]

\* ReconciliationService.Reconcile, one call: both feeds are ingested
\* concurrently over the range widened by the date buffer, the matcher is
\* run and the result is narrowed to the requested range
CallReconcile ==
    /\ rpc = "call"
    /\ LET effectiveStartDate == AddDate(svcStartDate, 0 - dateBuffer)
           effectiveEndDate == AddDate(svcEndDate, dateBuffer)
           Outcomes(knd, f, bank) ==
               ConcurrentOutcomes(knd, f, bank, effectiveStartDate, effectiveEndDate,
                                  numWorkers, batchSize)
       IN  \E sysOut \in Outcomes("system", systemRepo, "") :
           IF sysOut.err # "nil"
           THEN /\ result' = [res |-> EmptyResult,
                              err |-> <<"fetching system transactions", sysOut.err>>]
                /\ UNCHANGED <<systemTxns, bankTxns, mpc, matches>>
           ELSE \E order \in VisitOrders(DOMAIN bankRepos) :
                \E outs \in [DOMAIN bankRepos ->
                                UNION {Outcomes("bank", bankRepos[b], b) : b \in DOMAIN bankRepos}] :
                    /\ \A b \in DOMAIN bankRepos : outs[b] \in Outcomes("bank", bankRepos[b], b)
                    /\ LET bankOut == GatherBankTxns(order, outs, <<>>)
                       IN  IF bankOut.err # "nil"
                           THEN /\ result' = [res |-> EmptyResult,
                                              err |-> <<"fetching bank transactions", bankOut.err>>]
                                /\ UNCHANGED <<systemTxns, bankTxns, mpc, matches>>
                           ELSE /\ systemTxns' = sysOut.txns
                                /\ bankTxns' = bankOut.txns
                                /\ matches' = FindMatches(NewDefaultMatcher(strategies),
                                                          sysOut.txns, bankOut.txns)
                                /\ mpc' = "done"
                                /\ result' =
                                      [res |-> BuildResult(matches', sysOut.txns, bankOut.txns,
                                                           svcStartDate, svcEndDate),
                                       err |-> <<"nil">>]
    /\ rpc' = "returned"
    /\ UNCHANGED <<strategies, picked, systemRepo, bankRepos, dateBuffer, svcStartDate, svcEndDate, visited>>
    /\ UNCHANGED <<repoVars, callVars, prodVars, chanVars, workVars, collVars>>

\* Reconcile step by step, every ingestion being run as the goroutines of
\* GetTransactionsInRangeConcurrently.
\* the call of s.systemRepo.GetTransactionsInRangeConcurrently over the
\* widened range
ReconcileStart ==
    /\ rpc = "begin"
    /\ kind' = "system" /\ mode' = "conc" /\ bankID' = ""
    /\ file' = systemRepo
    /\ startDate' = AddDate(svcStartDate, 0 - dateBuffer)
    /\ endDate' = AddDate(svcEndDate, dateBuffer)
    /\ rpc' = "ledger"
    /\ UNCHANGED <<numWorkers, batchSize, callVars, prodVars, chanVars, workVars, collVars>>
    /\ UNCHANGED <<matchVars, systemRepo, bankRepos, dateBuffer, svcStartDate, svcEndDate,
                   visited, result>>

\* the call on the ledger repository has returned: its error is wrapped and
\* returned, or the loop over s.bankRepos is entered
ReconcileLedgerDone ==
    /\ rpc = "ledger" /\ pc = "returned"
    /\ IF ret.err # "nil"
       THEN /\ result' = [res |-> EmptyResult,
                          err |-> <<"fetching system transactions", ret.err>>]
            /\ rpc' = "returned"
            /\ UNCHANGED systemTxns
       ELSE /\ systemTxns' = ret.txns
            /\ rpc' = IF DOMAIN bankRepos = {} THEN "match" ELSE "banks"
            /\ UNCHANGED result
    /\ UNCHANGED <<strategies, bankTxns, mpc, matches, picked>>
    /\ UNCHANGED <<systemRepo, bankRepos, dateBuffer, svcStartDate, svcEndDate, visited>>
    /\ UNCHANGED <<repoVars, callVars, prodVars, chanVars, workVars, collVars>>

\* the range over s.bankRepos comes to a repository it has not visited yet
\* and calls its GetTransactionsInRangeConcurrently
ReconcileBankStart(b) ==
    /\ rpc = "banks"
    /\ b \in DOMAIN bankRepos \ visited
    /\ visited' = visited \cup {b}
    /\ kind' = "bank" /\ bankID' = b
    /\ file' = bankRepos[b]
    /\ pc' = "call" /\ ret' = NoRet /\ columnMap' = <<>>
    /\ prod' = "off" /\ pos' = 1 /\ batch' = <<>> /\ sentJobs' = <<>>
    /\ jobs' = <<>> /\ jobsClosed' = FALSE
    /\ results' = <<>> /\ resultsClosed' = FALSE
    /\ errChan' = <<>>
    /\ wpc' = [w \in Workers |-> "off"] /\ wout' = [w \in Workers |-> <<>>]
    /\ wg' = 0 /\ closer' = "off" /\ takenJobs' = <<>>
    /\ colBatch' = <<>> /\ txns' = <<>>
    /\ rpc' = "bank"
    /\ UNCHANGED <<mode, numWorkers, batchSize, startDate, endDate>>
    /\ UNCHANGED <<matchVars, systemRepo, bankRepos, dateBuffer, svcStartDate, svcEndDate, result>>

\* the call on a bank repository has returned: its error is wrapped and
\* returned, or its transactions are appended and the loop goes on or ends
ReconcileBankDone ==
    /\ rpc = "bank" /\ pc = "returned"
    /\ IF ret.err # "nil"
       THEN /\ result' = [res |-> EmptyResult,
                          err |-> <<"fetching bank transactions", ret.err>>]
            /\ rpc' = "returned"
            /\ UNCHANGED bankTxns
       ELSE /\ bankTxns' = bankTxns \o ret.txns
            /\ rpc' = IF visited = DOMAIN bankRepos THEN "match" ELSE "banks"
            /\ UNCHANGED result
    /\ UNCHANGED <<strategies, systemTxns, mpc, matches, picked>>
    /\ UNCHANGED <<systemRepo, bankRepos, dateBuffer, svcStartDate, svcEndDate, visited>>
    /\ UNCHANGED <<repoVars, callVars, prodVars, chanVars, workVars, collVars>>

\* s.matcher.FindMatches on what was ingested, the narrowing and the return
ReconcileMatch ==
    /\ rpc = "match"
    /\ matches' = FindMatches(NewDefaultMatcher(strategies), systemTxns, bankTxns)
    /\ mpc' = "done"
    /\ result' = [res |-> BuildResult(matches', systemTxns, bankTxns, svcStartDate, svcEndDate),
                  err |-> <<"nil">>]
    /\ rpc' = "returned"
    /\ UNCHANGED <<strategies, systemTxns, bankTxns, picked>>
    /\ UNCHANGED <<systemRepo, bankRepos, dateBuffer, svcStartDate, svcEndDate, visited>>
    /\ UNCHANGED <<repoVars, callVars, prodVars, chanVars, workVars, collVars>>

\* the feeds, date buffers, windows and strategy lists the service is run on
SvcLedgerRows ==
    { Layout(SysRow("T1", "100", "CREDIT", "d1t0"), systemHeaderFields),
      Layout(SysRow("T2", "100", "CREDIT", "d2t1"), systemHeaderFields),
      Layout(SysRow("T1", "100", "DEBIT", "d3t0"), systemHeaderFields) }

SvcBankRows ==
    { Layout(BankRow("c", "100", "d1t0"), bankHeaderFields),
      Layout(BankRow("b-c", "100", "d2t1"), bankHeaderFields),
      Layout(BankRow("c", "-100", "d3t0"), bankHeaderFields),
      Layout(BankRow("c", "101", "d2t1"), bankHeaderFields),
      Layout(BankRow("b-c", "100", "d3t0"), bankHeaderFields) }

SvcFiles(header, rows, n) ==
    {[header |-> header, rows |-> rs, ioFault |-> f] : rs \in SeqsUpTo(rows, n), f \in BOOLEAN}

SvcBankSets == {{"a"}, {"a", "a-b"}}

SvcWindows == {<<"d1t0", "d1t1">>, <<"d1t0", "d2t1">>, <<"d1t0", "d3t0">>}

SvcStrategyLists == {<<>>, <<NewExactMatchStrategy>>}

\* ------------------------------------------------------- specifications
\* the date ranges the concurrent ingestion of the ledger feed is called with
Windows == {<<"d1t1", "d2t0">>, <<"d2t1", "d3t0">>}

\* the concurrent ingestion of the ledger feed
Init ==
    /\ kind = "system" /\ mode = "conc" /\ bankID = ""
    /\ file \in Files("system", SystemHeaders, MaxRows)
    /\ numWorkers \in 1..MaxWorkers
    /\ batchSize \in 1..MaxBatch
    /\ \E w \in Windows : startDate = ParseTime(w[1]) /\ endDate = ParseTime(w[2])
    /\ Fresh
    /\ NoMatcher
    /\ NoService

Next ==
    \/ StartConcurrently
    \/ ProducerRead
    \/ ProducerSend
    \/ ProducerFail
    \/ ProducerClose
    \/ \E w \in Workers : WorkerRecv(w)
    \/ \E w \in Workers : WorkerPush(w)
    \/ \E w \in Workers : WorkerExit(w)
    \/ CloseResults
    \/ CollectRecv
    \/ CollectCheck
    \/ CollectEnd
    \/ CollectFinal

Spec == Init /\ [][Next]_vars

\* the concurrent ingestion of one bank statement feed
InitBank ==
    /\ kind = "bank" /\ mode = "conc" /\ bankID = "bank_abc"
    /\ file \in Files("bank", BankHeaders, MaxRows)
    /\ numWorkers \in 1..MaxWorkers
    /\ batchSize \in 1..MaxBatch
    /\ startDate = ParseTime("d1t1") /\ endDate = ParseTime("d2t0")
    /\ Fresh
    /\ NoMatcher
    /\ NoService

SpecBank == InitBank /\ [][Next]_vars

\* the sequential ingestion of either feed, over every date range
InitSeq ==
    /\ kind \in {"system", "bank"} /\ mode = "seq"
    /\ bankID = (IF kind = "system" THEN "" ELSE "bank_abc")
    /\ file \in Files(kind, IF kind = "system" THEN SystemHeaders ELSE BankHeaders, MaxSeqRows)
    /\ numWorkers = 1 /\ batchSize = 1
    /\ startDate \in Times /\ endDate \in Times
    /\ Fresh
    /\ NoMatcher
    /\ NoService

NextSeq == CallSequential

SpecSeq == InitSeq /\ [][NextSeq]_vars

\* the matcher on every ledger list, statement list and strategy list
InitMatch ==
    /\ NoRepository
    /\ NoService
    /\ strategies \in StrategyLists
    /\ systemTxns \in SeqsUpTo(LedgerTxns, MaxLedger)
    /\ bankTxns \in SeqsUpTo(StatementTxns, MaxStatements)
    /\ mpc = "call"
    /\ matches = <<>>
    /\ picked = NotFound

NextMatch == CallFindMatches

SpecMatch == InitMatch /\ [][NextMatch]_vars

\* the matcher on the ledger lists in which a third record stands beside two
\* that contend for a statement record
InitContend ==
    /\ NoRepository
    /\ NoService
    /\ strategies \in StrategyLists
    /\ systemTxns \in [1..MaxContenders -> LedgerTxns]
    /\ bankTxns \in SeqsUpTo(StatementTxns, MaxStatements)
    /\ mpc = "call"
    /\ matches = <<>>
    /\ picked = NotFound

SpecContend == InitContend /\ [][NextMatch]_vars

\* the matcher with the strategies in the order exact, fuzzy, date buffer,
\* given or by default, on lists of different ledger records and different
\* statement records that differ in amount by the threshold and in date by
\* the buffer
PriorityLedgerTxns ==
    { SystemTransaction(id, amount, Credit, ParseTime(time)) :
        id \in {"T1", "T2"}, amount \in {100, 101}, time \in {"d1t1", "d2t0"} }

PriorityStatementTxns ==
    { BankTransaction(id[2], amount, ParseTime(date), id[1]) :
        id \in {<<"a", "b-c">>, <<"a-b", "c">>}, amount \in {100, 101},
        date \in {"d1t0", "d2t0"} }

InitPriority ==
    /\ NoRepository
    /\ NoService
    /\ strategies \in {<<>>, <<NewExactMatchStrategy,
                               NewFuzzyMatchStrategy(defaultAmountThreshold),
                               NewDateBufferMatchStrategy(defaultDaysBuffer)>>}
    /\ systemTxns \in {l \in SeqsUpTo(PriorityLedgerTxns, MaxLedger) : Injective(l)}
    /\ bankTxns \in {l \in SeqsUpTo(PriorityStatementTxns, MaxStatements) : Injective(l)}
    /\ mpc = "call"
    /\ matches = <<>>
    /\ picked = NotFound

SpecPriority == InitPriority /\ [][NextMatch]_vars

\* one strategy on every ledger record and candidate list
InitStrategy ==
    /\ NoRepository
    /\ NoService
    /\ \E s \in StrategyConfigs : strategies = <<s>>
    /\ \E sysTxn \in StrategyLedgerTxns : systemTxns = <<sysTxn>>
    /\ bankTxns \in SeqsUpTo(CandidateTxns, MaxCandidates)
    /\ mpc = "match"
    /\ matches = <<>>
    /\ picked = NotFound

NextStrategy == CallMatch

SpecStrategy == InitStrategy /\ [][NextStrategy]_vars

\* two calls in a row: of one strategy on every ledger record and candidate
\* list, and of the default matcher on every ledger list and statement list
InitAgain ==
    \/ InitStrategy
    \/ /\ NoRepository
       /\ NoService
       /\ strategies = <<>>
       /\ systemTxns \in SeqsUpTo(LedgerTxns, MaxLedger)
       /\ bankTxns \in SeqsUpTo(StatementTxns, MaxStatements)
       /\ mpc = "call"
       /\ matches = <<>>
       /\ picked = NotFound

NextAgain ==
    \/ CallMatch
    \/ CallMatchAgain
    \/ CallFindMatches
    \/ CallFindMatchesAgain

SpecAgain == InitAgain /\ [][NextAgain]_vars

\* the service on every ledger feed, set of bank feeds, date buffer, window
\* and strategy list
InitReconcile ==
    /\ kind = "system" /\ mode = "off" /\ bankID = ""
    /\ file = [header |-> <<>>, rows |-> <<>>, ioFault |-> FALSE]
    /\ numWorkers \in 1..MaxWorkers
    /\ batchSize \in 1..MaxBatch
    /\ startDate = 0 /\ endDate = 0
    /\ Fresh
    /\ systemTxns = <<>> /\ bankTxns = <<>> /\ mpc = "off" /\ matches = <<>>
    /\ picked = NotFound
    /\ systemRepo \in SvcFiles(systemHeaderFields, SvcLedgerRows, MaxLedgerRows)
    /\ \E ids \in SvcBankSets :
          bankRepos \in [ids -> SvcFiles(bankHeaderFields, SvcBankRows, MaxBankRows)]
    /\ dateBuffer \in 0..MaxBuffer
    /\ strategies \in SvcStrategyLists
    /\ \E w \in SvcWindows : svcStartDate = ParseTime(w[1]) /\ svcEndDate = ParseTime(w[2])
    /\ rpc = "call"
    /\ visited = {}
    /\ result = [res |-> EmptyResult, err |-> <<"none">>]

NextReconcile == CallReconcile

SpecReconcile == InitReconcile /\ [][NextReconcile]_vars

\* the date buffers and thresholds the flags of main can carry, an int and a
\* float64 of either sign, of which at least one is negative
InvalidParameters ==
    {p \in ((-1)..MaxBuffer) \X {-1, MaxThreshold} : p[1] < 0 \/ p[2] < 0}

\* the service as main constructs it from such flags: the exact, the fuzzy
\* and the date-buffer strategy, the last with the date buffer of the
\* service, over every ledger feed, one bank feed and every window
InitInvalid ==
    /\ kind = "system" /\ mode = "off" /\ bankID = ""
    /\ file = [header |-> <<>>, rows |-> <<>>, ioFault |-> FALSE]
    /\ numWorkers \in 1..MaxWorkers
    /\ batchSize \in 1..MaxBatch
    /\ startDate = 0 /\ endDate = 0
    /\ Fresh
    /\ systemTxns = <<>> /\ bankTxns = <<>> /\ mpc = "off" /\ matches = <<>>
    /\ picked = NotFound
    /\ systemRepo \in SvcFiles(systemHeaderFields, SvcLedgerRows, MaxLedgerRows)
    /\ bankRepos \in [{"a"} -> SvcFiles(bankHeaderFields, SvcBankRows, MaxBankRows)]
    /\ \E p \in InvalidParameters :
          /\ dateBuffer = p[1]
          /\ strategies = <<NewExactMatchStrategy, NewFuzzyMatchStrategy(p[2]),
                            NewDateBufferMatchStrategy(p[1])>>
    /\ \E w \in SvcWindows : svcStartDate = ParseTime(w[1]) /\ svcEndDate = ParseTime(w[2])
    /\ rpc = "call"
    /\ visited = {}
    /\ result = [res |-> EmptyResult, err |-> <<"none">>]

SpecInvalid == InitInvalid /\ [][NextReconcile]_vars

\* the service step by step on every ledger feed and one or two bank feeds
\* of at most one record, of which any may fail on a read
InitOrchestrate ==
    /\ kind = "system" /\ mode = "off" /\ bankID = ""
    /\ file = [header |-> <<>>, rows |-> <<>>, ioFault |-> FALSE]
    /\ numWorkers \in 1..MaxWorkers
    /\ batchSize \in 1..MaxBatch
    /\ startDate = 0 /\ endDate = 0
    /\ Fresh
    /\ strategies = <<>>
    /\ systemTxns = <<>> /\ bankTxns = <<>> /\ mpc = "off" /\ matches = <<>>
    /\ picked = NotFound
    /\ systemRepo \in SvcFiles(systemHeaderFields, SvcLedgerRows, MaxLedgerRows)
    /\ \E ids \in SvcBankSets :
          bankRepos \in [ids -> SvcFiles(bankHeaderFields,
                                        {Layout(BankRow("c", "100", "d1t0"), bankHeaderFields)},
                                        MaxBankRows)]
    /\ dateBuffer = MaxBuffer
    /\ svcStartDate = ParseTime("d1t0") /\ svcEndDate = ParseTime("d2t1")
    /\ rpc = "begin"
    /\ visited = {}
    /\ result = [res |-> EmptyResult, err |-> <<"none">>]

NextOrchestrate ==
    \/ ReconcileStart
    \/ ReconcileLedgerDone
    \/ \E b \in DOMAIN bankRepos : ReconcileBankStart(b)
    \/ ReconcileBankDone
    \/ ReconcileMatch
    \/ Next

SpecOrchestrate == InitOrchestrate /\ [][NextOrchestrate]_vars

\* feeds that cannot be read for what they hold: an empty file, a header
\* that lacks a column, a record that lacks a field
UnreadableFiles(header, rows) ==
    { [header |-> <<>>, rows |-> <<>>, ioFault |-> FALSE],
      [header |-> Shorten(header), rows |-> <<>>, ioFault |-> FALSE] }
        \cup {[header |-> header, rows |-> <<Shorten(row)>>, ioFault |-> FALSE] : row \in rows}

ReadableFiles(header, rows, n) ==
    {f \in SvcFiles(header, rows, n) : ~f.ioFault}

\* the service on a ledger feed and two bank feeds of which any may be
\* unreadable
InitFeedError ==
    /\ kind = "system" /\ mode = "off" /\ bankID = ""
    /\ file = [header |-> <<>>, rows |-> <<>>, ioFault |-> FALSE]
    /\ numWorkers \in 1..MaxWorkers
    /\ batchSize \in 1..MaxBatch
    /\ startDate = 0 /\ endDate = 0
    /\ Fresh
    /\ strategies = <<>>
    /\ systemTxns = <<>> /\ bankTxns = <<>> /\ mpc = "off" /\ matches = <<>>
    /\ picked = NotFound
    /\ systemRepo \in ReadableFiles(systemHeaderFields, SvcLedgerRows, MaxLedgerRows)
                        \cup UnreadableFiles(systemHeaderFields, SvcLedgerRows)
    /\ bankRepos \in [{"a", "a-b"} ->
                        ReadableFiles(bankHeaderFields, SvcBankRows, MaxBankRows)
                            \cup UnreadableFiles(bankHeaderFields, SvcBankRows)]
    /\ dateBuffer = MaxBuffer
    /\ svcStartDate = ParseTime("d1t0") /\ svcEndDate = ParseTime("d2t1")
    /\ rpc = "call"
    /\ visited = {}
    /\ result = [res |-> EmptyResult, err |-> <<"none">>]

SpecFeedError == InitFeedError /\ [][NextReconcile]_vars

\* the concurrent ingestion of the ledger feed under the Go scheduler, which
\* runs every goroutine that can take a step
Fairness ==
    /\ WF_vars(StartConcurrently)
    /\ WF_vars(ProducerRead) /\ WF_vars(ProducerSend)
    /\ WF_vars(ProducerFail) /\ WF_vars(ProducerClose)
    /\ \A w \in Workers : WF_vars(WorkerRecv(w)) /\ WF_vars(WorkerPush(w)) /\ WF_vars(WorkerExit(w))
    /\ WF_vars(CloseResults)
    /\ WF_vars(CollectRecv) /\ WF_vars(CollectCheck)
    /\ WF_vars(CollectEnd) /\ WF_vars(CollectFinal)

InitFair ==
    /\ Init
    /\ file.header = systemHeaderFields
    /\ startDate = ParseTime("d1t1")

FairSpec == InitFair /\ [][Next]_vars /\ Fairness

\* --------------------------------------------- what the claims speak of
\* the column a required field is resolved to: the one whose name is the
\* field's name in some letter case
Col(header, name) == CHOOSE i \in DOMAIN header : Lower(header[i]) = Lower(name)

HeaderLacks(header, required) ==
    \E c \in Range(required) : \A i \in DOMAIN header : Lower(header[i]) # Lower(c)

HeaderBad == file.header = <<>> \/ HeaderLacks(file.header, HeaderFields(kind))

HeaderErrors == {"reading header", "mapping CSV column"}

DayOf(t) == t \div DayTicks

InWindow(t, start, end) == DayOf(start) <= DayOf(t) /\ DayOf(t) <= DayOf(end)

\* a data row that parses: all the fields, a date, an amount and, in the
\* ledger, a type
ValidRow(row) ==
    LET h == file.header
    IN  /\ Len(row) = Len(h)
        /\ ParseAmount(row[Col(h, "amount")])[1]
        /\ IF kind = "system"
           THEN /\ ParseTime(row[Col(h, "transactionTime")]) # NoTime
                /\ row[Col(h, "type")] \in {"DEBIT", "CREDIT"}
           ELSE ParseTime(row[Col(h, "date")]) # NoTime

RowTime(row) ==
    ParseTime(row[Col(file.header, IF kind = "system" THEN "transactionTime" ELSE "date")])

Typed(row) ==
    LET h == file.header
    IN  IF kind = "system"
        THEN [TrxID |-> row[Col(h, "trxID")],
              Amount |-> ParseAmount(row[Col(h, "amount")])[2],
              Type |-> row[Col(h, "type")],
              TransactionTime |-> RowTime(row)]
        ELSE [UniqID |-> row[Col(h, "unique_identifier")],
              Amount |-> ParseAmount(row[Col(h, "amount")])[2],
              Date |-> RowTime(row),
              BankID |-> bankID]

\* the records of the valid rows dated inside the window, in file order
RECURSIVE ExpectedFrom(_)
ExpectedFrom(rows) ==
    IF rows = <<>> THEN <<>>
    ELSE (IF ValidRow(Head(rows)) /\ InWindow(RowTime(Head(rows)), startDate, endDate)
          THEN <<Typed(Head(rows))>> ELSE <<>>) \o ExpectedFrom(Tail(rows))

Expected == ExpectedFrom(file.rows)

ShortRow == \E i \in DOMAIN file.rows : Len(file.rows[i]) # Len(file.header)

\* the producer's reader fails on some record of the file
ReadFault == ~HeaderBad /\ (file.ioFault \/ ShortRow)

Sequential == GetTransactionsInRange(kind, file, bankID, startDate, endDate)

WorkersOver == \A w \in Workers : wpc[w] \in {"off", "done"}

\* ---------------------------------------------------------------- claims

\* C3: when the concurrent ingestion of the ledger feed returns, in whatever
\* interleaving, it has failed exactly when the sequential ingestion of the
\* same file and range fails, and it returns the same records as the
\* sequential one, each the same number of times, order ignored.
C3_LedgerConcurrentEqualsSequential ==
    (mode = "conc" /\ kind = "system" /\ pc = "returned") =>
        /\ (ret.err = "nil") = (Sequential.err = "nil")
        /\ BagOf(ret.txns) = BagOf(Sequential.txns)

\* two workers returned the surviving records in another order than the
\* file's, and a row of the file was dropped
C3_Witness ==
    /\ mode = "conc" /\ kind = "system" /\ pc = "returned" /\ ret.err = "nil"
    /\ numWorkers = 2 /\ Len(ret.txns) = 2 /\ Len(file.rows) = 3
    /\ ret.txns # Sequential.txns

\* C4: when the concurrent ingestion of a bank feed returns, it returns the
\* same statement records as the sequential ingestion of the same file and
\* range: the valid rows dated inside the inclusive range.
C4_BankConcurrentEqualsSequential ==
    (mode = "conc" /\ kind = "bank" /\ pc = "returned") =>
        /\ (ret.err = "nil") = (Sequential.err = "nil")
        /\ BagOf(ret.txns) = BagOf(Sequential.txns)

\* C5: when the reader fails on a record (a record of the wrong length, or
\* an I/O fault), the concurrent ingestion returns the producer's error and
\* no record, whatever the collector had gathered by then.
C5_ReadFaultIsReturned ==
    (mode = "conc" /\ pc = "returned" /\ ReadFault) =>
        (ret.err = "reading CSV record" /\ ret.txns = <<>>)

\* the call returned the error although the collector had already gathered
\* records of earlier batches
C5_Witness ==
    /\ mode = "conc" /\ pc = "returned" /\ ReadFault
    /\ ret.err = "reading CSV record" /\ txns # <<>>

\* C6: when the concurrent ingestion has returned, every worker has
\* terminated (none is running or blocked on the result queue).
C6_WorkersOverAtReturn ==
    (mode = "conc" /\ pc = "returned") => WorkersOver

\* C7: under fair scheduling the call eventually returns with the batch queue
\* closed, every worker exited and the result queue closed.
C7_EventuallyAllOver ==
    <>(pc = "returned" /\ (HeaderBad \/ (jobsClosed /\ WorkersOver /\ resultsClosed)))

\* the part of C7 the code keeps: the call itself always returns
CallEventuallyReturns == <>(pc = "returned")

\* the part of C7 the code keeps: until the call returns some goroutine can
\* take a step
NoDeadlockBeforeReturn == (pc # "returned") => ENABLED Next

\* C8: a file whose reads do not fail at the I/O level is ingested without
\* error, bad rows (too few fields, bad date, bad amount, bad type) are
\* dropped and every valid row inside the window is returned.
C8_BadRowsAreSkipped ==
    (mode = "conc" /\ kind = "system" /\ pc = "returned" /\ ~HeaderBad /\ ~file.ioFault) =>
        (ret.err = "nil" /\ BagOf(ret.txns) = BagOf(Expected))

\* C9: the ingestion fails at the header, with no record read and no
\* goroutine started, exactly when the header cannot be read or lacks a
\* required name in every letter case; otherwise the pipeline is started with
\* every required field resolved to the column that bears its name, and the
\* records it returns are the typed rows of the file.
C9_HeaderDecides ==
    /\ (pc = "returned" /\ HeaderBad) =>
          /\ ret.err \in HeaderErrors
          /\ pos = 1 /\ prod = "off" /\ closer = "off"
          /\ \A w \in Workers : wpc[w] = "off"
    /\ (pc # "call" /\ ~HeaderBad) =>
          /\ ret.err \notin HeaderErrors
          /\ prod # "off" /\ \A w \in 1..numWorkers : wpc[w] # "off"
          /\ \A c \in Range(HeaderFields(kind)) :
                Lower(file.header[columnMap[c]]) = Lower(c)
          /\ \A i \in DOMAIN ret.txns :
                \E j \in DOMAIN file.rows :
                    ValidRow(file.rows[j]) /\ ret.txns[i] = Typed(file.rows[j])
    /\ HeaderBad => pc \in {"call", "returned"}

\* a header in another column order and letter case, with a column the feed
\* does not know, was accepted and records were read through it
C9_Witness ==
    /\ pc = "returned" /\ ret.err = "nil" /\ ret.txns # <<>>
    /\ file.header # HeaderFields(kind) /\ ~HeaderBad

\* C10: a sequential ingestion that does not fail returns exactly the valid
\* rows whose day lies between the day of startDate and the day of endDate,
\* both included, in file order; it fails only on a header or read error, so
\* a file with no row in range yields an empty result and no error.
C10_SequentialRange ==
    (mode = "seq" /\ pc = "returned") =>
        /\ ret.err = "nil" => ret.txns = Expected
        /\ (~HeaderBad /\ ~ReadFault) => ret.err = "nil"

\* a row of the start day earlier in the day than startDate and a row of the
\* end day later in the day than endDate were both returned
C10_Witness ==
    /\ mode = "seq" /\ pc = "returned" /\ ret.err = "nil" /\ kind = "system"
    /\ startDate % DayTicks = 1 /\ endDate % DayTicks = 0
    /\ Len(ret.txns) = 2
    /\ ret.txns[1].TransactionTime < startDate
    /\ ret.txns[2].TransactionTime > endDate

\* C1: when the (BankID, UniqID) pairs of the statement list are pairwise
\* distinct, no two of the matches FindMatches returns hold the same
\* (BankID, UniqID) statement record.
C1_StatementMatchedOnce ==
    (mpc = "done" /\ \A i, j \in DOMAIN bankTxns :
                        i # j => <<bankTxns[i].BankID, bankTxns[i].UniqID>> #
                                 <<bankTxns[j].BankID, bankTxns[j].UniqID>>) =>
        \A i, j \in DOMAIN matches :
            i # j => <<matches[i].BankTxn.BankID, matches[i].BankTxn.UniqID>> #
                     <<matches[j].BankTxn.BankID, matches[j].BankTxn.UniqID>>

\* two ledger records that are eligible for the same first statement record
\* were both matched, the second to another statement record
C1_Witness ==
    /\ mpc = "done" /\ Len(matches) = 2 /\ Len(bankTxns) = 2
    /\ matches[1].BankTxn = bankTxns[1] /\ matches[2].BankTxn = bankTxns[2]
    /\ bankTxns[1].Amount = bankTxns[2].Amount /\ bankTxns[1].Date = bankTxns[2].Date
    /\ <<bankTxns[1].BankID, bankTxns[1].UniqID>> # <<bankTxns[2].BankID, bankTxns[2].UniqID>>

\* C2: when the TrxIDs of the ledger list are pairwise distinct, no two of
\* the matches FindMatches returns hold the same ledger record.
C2_LedgerMatchedOnce ==
    (mpc = "done" /\ \A i, j \in DOMAIN systemTxns :
                        i # j => systemTxns[i].TrxID # systemTxns[j].TrxID) =>
        \A i, j \in DOMAIN matches :
            i # j => matches[i].SystemTxn.TrxID # matches[j].SystemTxn.TrxID

\* a ledger record that more than one configured strategy can match against
\* the statement list was matched, once
C2_Witness ==
    /\ mpc = "done" /\ Len(systemTxns) = 1 /\ Len(matches) = 1
    /\ Len(NewDefaultMatcher(strategies)) >= 2
    /\ \A k \in DOMAIN NewDefaultMatcher(strategies) :
          Match(NewDefaultMatcher(strategies)[k], systemTxns[1], bankTxns).found
    /\ Len(bankTxns) = 2 /\ bankTxns[1].Amount # bankTxns[2].Amount

\* the number of rows in a sequence of batches
RECURSIVE RowsIn(_)
RowsIn(bs) == IF bs = <<>> THEN 0 ELSE Len(Head(bs)) + RowsIn(Tail(bs))

\* the rows read from the source that the collector has not received yet:
\* those of the producer's current batch, of the batches in the jobs
\* channel, of the batchResults the workers hold and of the results channel
InFlight ==
    Len(batch) + RowsIn(jobs) + RowsIn([w \in Workers |-> wout[w]]) + RowsIn(results)

\* C11: in every state of a concurrent ingestion call the rows read from the
\* source and not yet received by the collector number at most
\* NumWorkers x BatchSize.
C11_InFlightBounded ==
    mode = "conc" => InFlight <= numWorkers * batchSize

\* what the channels of the code do bound: a batch in the producer, NumWorkers
\* batches in each of the two channels and one batch in each worker
InFlightWithinChannels ==
    mode = "conc" => InFlight <= (3 * numWorkers + 1) * batchSize

\* ------------------------------------- what the matcher's claims speak of
\* the strategies of the matcher FindMatches is called on
Matcher == NewDefaultMatcher(strategies)

\* the matches FindMatches has recorded when it takes up the k-th ledger
\* record: those of the ledger records before it
MatchesBefore(k) == FindMatches(Matcher, SubSeq(systemTxns, 1, k - 1), bankTxns)

Pair(bankTxn) == <<bankTxn.BankID, bankTxn.UniqID>>

\* the candidate list the strategies are called with once ms is recorded
CandidatesAfter(ms) ==
    AvailableBankTxns(bankTxns, {MatchKey(ms[m].BankTxn) : m \in DOMAIN ms})

\* the candidate list the strategies are called with for the k-th ledger
\* record
CandidatesAt(k) == CandidatesAfter(MatchesBefore(k))

\* the configured strategies that return one of these candidates for the
\* k-th ledger record, by their place in the configured order
FindersAmong(candidates, k) ==
    {j \in DOMAIN Matcher : Match(Matcher[j], systemTxns[k], candidates).found}

Finders(k) == FindersAmong(CandidatesAt(k), k)

Least(places) == CHOOSE j \in places : \A i \in places : j <= i

FirstFinder(k) == Least(Finders(k))

FoundBy(j, k) == Match(Matcher[j], systemTxns[k], CandidatesAt(k)).bankTxn

\* what FindMatches is claimed to record from the k-th ledger record on,
\* these keys being claimed: for each ledger record some strategy returns a
\* candidate for, the candidate of the first such strategy in the configured
\* order, with the strategy, by, that returned it
RECURSIVE RecordedFrom(_, _)
RecordedFrom(k, claimedKeys) ==
    IF k > Len(systemTxns) THEN <<>>
    ELSE LET candidates == AvailableBankTxns(bankTxns, claimedKeys)
             finders == FindersAmong(candidates, k)
         IN  IF finders = {} THEN RecordedFrom(k + 1, claimedKeys)
             ELSE LET s == Matcher[Least(finders)]
                      bankTxn == Match(s, systemTxns[k], candidates).bankTxn
                  IN  <<[SystemTxn |-> systemTxns[k], BankTxn |-> bankTxn, by |-> s]>>
                          \o RecordedFrom(k + 1, claimedKeys \cup {MatchKey(bankTxn)})

Recorded == RecordedFrom(1, {})

\* C12: for each ledger record, in ledger order, FindMatches records no Match
\* when no configured strategy returns a candidate from the statements then
\* available, and otherwise records one Match, of the ledger record with the
\* candidate of the first strategy in the configured order that returns one.
C12_FirstStrategyWins ==
    mpc = "done" =>
        LET recorded == Recorded
        IN  /\ Len(matches) = Len(recorded)
            /\ \A m \in DOMAIN matches :
                  /\ matches[m].SystemTxn = recorded[m].SystemTxn
                  /\ matches[m].BankTxn = recorded[m].BankTxn

\* two strategies returned different candidates for the first ledger record,
\* which was matched to the candidate of the first of them, and no strategy
\* returned a candidate for the second ledger record
C12_Witness ==
    /\ mpc = "done" /\ Len(systemTxns) = 2 /\ Len(matches) = 1
    /\ Finders(1) = {1, 2} /\ FoundBy(1, 1) # FoundBy(2, 1)
    /\ matches[1].BankTxn = FoundBy(1, 1)
    /\ Finders(2) = {}

\* the (BankID, UniqID) pairs the matches hold
ClaimedPairs(ms) == {Pair(ms[m].BankTxn) : m \in DOMAIN ms}

\* C13: the candidate list of every strategy call is the statement list, in
\* its order, without the records whose (BankID, UniqID) pair an earlier
\* Match of the run holds, and with every other record.
C13_CandidatesAreUnclaimed ==
    mpc = "done" =>
        \A k \in DOMAIN systemTxns :
            LET before == MatchesBefore(k)
                claimed == ClaimedPairs(before)
            IN  CandidatesAfter(before) =
                    SelectSeq(bankTxns, LAMBDA bankTxn : Pair(bankTxn) \notin claimed)

\* the part of C13 the code keeps: a record whose pair an earlier Match
\* holds is not a candidate, and the candidates keep the order of the list
ClaimedAreExcluded ==
    mpc = "done" =>
        \A k \in DOMAIN systemTxns :
            LET before == MatchesBefore(k)
                claimed == ClaimedPairs(before)
                candidates == CandidatesAfter(before)
            IN  /\ \A c \in DOMAIN candidates : Pair(candidates[c]) \notin claimed
                /\ candidates =
                      SelectSeq(bankTxns, LAMBDA bankTxn : bankTxn \in Range(candidates))

\* some configured strategy matches the ledger record to the statement record
\* when it is the only candidate
Eligible(sysTxn, bankTxn) ==
    \E j \in DOMAIN Matcher : Match(Matcher[j], sysTxn, <<bankTxn>>).found

\* the i-th ledger record is eligible for the b-th statement record and for
\* no other record of the statement list
OnlyEligibleFor(i, b) ==
    /\ Eligible(systemTxns[i], bankTxns[b])
    /\ \A c \in DOMAIN bankTxns :
          Eligible(systemTxns[i], bankTxns[c]) => bankTxns[c] = bankTxns[b]

\* the two ledger records i and j, i the earlier, contend for the b-th
\* statement record, which no other ledger record is eligible for
Contend(i, j, b) ==
    /\ i < j
    /\ OnlyEligibleFor(i, b) /\ OnlyEligibleFor(j, b)
    /\ \A k \in DOMAIN systemTxns \ {i, j} : ~Eligible(systemTxns[k], bankTxns[b])

MatchCount(sysTxn) == Cardinality({m \in DOMAIN matches : matches[m].SystemTxn = sysTxn})

\* of the two contenders exactly the earlier one is matched, to the statement
\* record they contend for
FirstContenderWins(i, j, b) ==
    /\ \E m \in DOMAIN matches :
          matches[m].SystemTxn = systemTxns[i] /\ matches[m].BankTxn = bankTxns[b]
    /\ IF systemTxns[i] = systemTxns[j]
       THEN MatchCount(systemTxns[i]) = 1
       ELSE MatchCount(systemTxns[i]) = 1 /\ MatchCount(systemTxns[j]) = 0

\* the statement list holds no (BankID, UniqID) pair twice
DistinctPairs ==
    \A b, c \in DOMAIN bankTxns : b # c => Pair(bankTxns[b]) # Pair(bankTxns[c])

\* the statement list holds no "BankID-UniqID" key twice
DistinctKeys ==
    \A b, c \in DOMAIN bankTxns : b # c => MatchKey(bankTxns[b]) # MatchKey(bankTxns[c])

\* C14: over a statement list of pairwise distinct (BankID, UniqID) pairs,
\* when two ledger records are both eligible for one statement record and
\* for no other, and no other ledger record is eligible for it, exactly one
\* of the two is matched: the one that comes first in the ledger list.
C14_FirstComeFirstServed ==
    (mpc = "done" /\ DistinctPairs) =>
        \A i, j \in DOMAIN systemTxns : \A b \in DOMAIN bankTxns :
            Contend(i, j, b) => FirstContenderWins(i, j, b)

\* the part of C14 the code keeps: first come, first served over a
\* statement list of pairwise distinct "BankID-UniqID" keys
FirstComeFirstServedOnDistinctKeys ==
    (mpc = "done" /\ DistinctKeys) =>
        \A i, j \in DOMAIN systemTxns : \A b \in DOMAIN bankTxns :
            Contend(i, j, b) => FirstContenderWins(i, j, b)

\* two contenders and a third ledger record, matched beside them, over
\* distinct keys: the earlier contender has the statement record
ContendersMet ==
    /\ mpc = "done" /\ DistinctKeys /\ Len(systemTxns) = 3 /\ Len(matches) = 2
    /\ \E i, j \in DOMAIN systemTxns : \E b \in DOMAIN bankTxns :
          Contend(i, j, b) /\ systemTxns[i] # systemTxns[j]

\* ---------------------------------- what the strategies' claims speak of
\* the comparable amount of a ledger record: the stored amount, negated for
\* a debit
Signed(sysTxn) == IF sysTxn.Type = "DEBIT" THEN 0 - sysTxn.Amount ELSE sysTxn.Amount

Distance(a, b) == IF a >= b THEN a - b ELSE b - a

\* the candidate a strategy is claimed to return: the first, in list order,
\* of the candidates at the qualifying places
FirstOf(qualifying) == bankTxns[CHOOSE i \in qualifying : \A j \in qualifying : i <= j]

\* the strategy returned the first of the qualifying candidates, or no-match
\* when none qualifies
PickedFirstOf(qualifying) ==
    /\ picked.found = (qualifying # {})
    /\ qualifying # {} => picked.bankTxn = FirstOf(qualifying)

ExactQualifying(sysTxn) ==
    {i \in DOMAIN bankTxns :
        /\ DayOf(bankTxns[i].Date) = DayOf(sysTxn.TransactionTime)
        /\ bankTxns[i].Amount = Signed(sysTxn)}

FuzzyQualifying(threshold, sysTxn) ==
    {i \in DOMAIN bankTxns :
        /\ DayOf(bankTxns[i].Date) = DayOf(sysTxn.TransactionTime)
        /\ Distance(Signed(sysTxn), bankTxns[i].Amount) <= threshold}

BufferQualifying(b, sysTxn) ==
    {i \in DOMAIN bankTxns :
        /\ DayOf(sysTxn.TransactionTime) - b <= DayOf(bankTxns[i].Date)
        /\ DayOf(bankTxns[i].Date) <= DayOf(sysTxn.TransactionTime) + b
        /\ bankTxns[i].Amount = Signed(sysTxn)}

\* C15: ExactMatchStrategy.Match returns the first candidate, in list order,
\* of the ledger record's day and of the normalized ledger amount, and
\* no-match exactly when there is none.
C15_ExactPicksFirstQualifying ==
    (mpc = "matched" /\ strategies[1].name = "exact") =>
        PickedFirstOf(ExactQualifying(systemTxns[1]))

\* two candidates of the day and of the negated amount of a debit, at
\* different times of the day: the first was returned
C15_Witness ==
    /\ mpc = "matched" /\ strategies[1].name = "exact"
    /\ systemTxns[1].Type = Debit
    /\ ExactQualifying(systemTxns[1]) = {1, 2}
    /\ bankTxns[1] # bankTxns[2] /\ bankTxns[1].Date # systemTxns[1].TransactionTime
    /\ picked.found /\ picked.bankTxn = bankTxns[1]

\* C16: FuzzyMatchStrategy.Match returns the first candidate, in list order,
\* of the ledger record's day whose amount differs from the normalized
\* ledger amount by the threshold or less, and no-match exactly when there
\* is none.
C16_FuzzyPicksFirstQualifying ==
    (mpc = "matched" /\ strategies[1].name = "fuzzy") =>
        PickedFirstOf(FuzzyQualifying(strategies[1].AmountThreshold, systemTxns[1]))

\* a candidate whose amount differs by exactly the threshold was returned
\* ahead of a later candidate of the exact amount
C16_Witness ==
    /\ mpc = "matched" /\ strategies[1].name = "fuzzy"
    /\ strategies[1].AmountThreshold > 0 /\ Len(bankTxns) = 2
    /\ Distance(Signed(systemTxns[1]), bankTxns[1].Amount) = strategies[1].AmountThreshold
    /\ bankTxns[2].Amount = Signed(systemTxns[1])
    /\ FuzzyQualifying(strategies[1].AmountThreshold, systemTxns[1]) = {1, 2}
    /\ picked.found /\ picked.bankTxn = bankTxns[1]

\* C17: DateBufferMatchStrategy.Match with bufferDays b returns the first
\* candidate, in list order, of the normalized ledger amount whose day is at
\* most b days before or after the ledger record's day, and no-match exactly
\* when there is none.
C17_BufferPicksFirstQualifying ==
    (mpc = "matched" /\ strategies[1].name = "buffer") =>
        PickedFirstOf(BufferQualifying(strategies[1].BufferDays, systemTxns[1]))

\* with a buffer of one day a candidate of the next day was returned ahead
\* of a later candidate of the ledger record's day
C17_Witness ==
    /\ mpc = "matched" /\ strategies[1].name = "buffer"
    /\ strategies[1].BufferDays = 1 /\ Len(bankTxns) = 2
    /\ DayOf(bankTxns[1].Date) = DayOf(systemTxns[1].TransactionTime) + 1
    /\ DayOf(bankTxns[2].Date) = DayOf(systemTxns[1].TransactionTime)
    /\ BufferQualifying(1, systemTxns[1]) = {1, 2}
    /\ picked.found /\ picked.bankTxn = bankTxns[1]

\* with a buffer of no day a lone candidate of the next day and of the right
\* amount was not returned
NextDayNotMatchedWithoutBuffer ==
    /\ mpc = "matched" /\ strategies[1].name = "buffer"
    /\ strategies[1].BufferDays = 0 /\ Len(bankTxns) = 1
    /\ DayOf(bankTxns[1].Date) = DayOf(systemTxns[1].TransactionTime) + 1
    /\ bankTxns[1].Amount = Signed(systemTxns[1])
    /\ ~picked.found

\* the statement record qualifies for the ledger record under the strategy,
\* the comparable amount being the signed one
QualifiesUnder(s, sysTxn, bankTxn) ==
    LET days == Distance(DayOf(bankTxn.Date), DayOf(sysTxn.TransactionTime))
        diff == Distance(Signed(sysTxn), bankTxn.Amount)
    IN  CASE s.name = "exact" -> days = 0 /\ diff = 0
          [] s.name = "fuzzy" -> days = 0 /\ diff <= s.AmountThreshold
          [] s.name = "buffer" -> days <= s.BufferDays /\ diff = 0

\* C18: the amount of a ledger record that the strategies compare and the
\* discrepancy is computed from is minus the stored amount for a DEBIT and
\* the stored amount for a CREDIT: every Match pairs statement and ledger
\* records that qualify under a configured strategy with that amount, and
\* carries the distance of the statement amount from it.
C18_AmountIsSignedByType ==
    mpc = "done" =>
        \A m \in DOMAIN matches :
            /\ matches[m].SystemTxn.Type \in {"DEBIT", "CREDIT"}
            /\ \E j \in DOMAIN Matcher :
                  QualifiesUnder(Matcher[j], matches[m].SystemTxn, matches[m].BankTxn)
            /\ matches[m].AmmountDiff =
                  Distance(Signed(matches[m].SystemTxn), matches[m].BankTxn.Amount)

\* a debit of 100 was matched to a statement record of -100 and a credit of
\* 100 to one of 100
C18_Witness ==
    /\ mpc = "done" /\ Len(matches) = 2
    /\ matches[1].SystemTxn.Type = Debit /\ matches[1].SystemTxn.Amount = 100
    /\ matches[1].BankTxn.Amount = -100
    /\ matches[2].SystemTxn.Type = Credit /\ matches[2].SystemTxn.Amount = 100
    /\ matches[2].BankTxn.Amount = 100

\* C19: every Match carries the absolute difference of the normalized ledger
\* amount and the statement amount; it is zero when the exact or the
\* date-buffer strategy produced the Match and at most the threshold when
\* the fuzzy strategy did.
C19_Discrepancy ==
    mpc = "done" =>
        LET recorded == Recorded
        IN  /\ Len(matches) = Len(recorded)
            /\ \A m \in DOMAIN matches :
                  /\ matches[m].AmmountDiff =
                        Distance(Signed(matches[m].SystemTxn), matches[m].BankTxn.Amount)
                  /\ recorded[m].by.name \in {"exact", "buffer"} => matches[m].AmmountDiff = 0
                  /\ recorded[m].by.name = "fuzzy" =>
                        matches[m].AmmountDiff <= recorded[m].by.AmountThreshold

\* the exact strategy produced a Match with no discrepancy and then the
\* fuzzy strategy one of a statement amount above the ledger amount, with a
\* discrepancy equal to the threshold
C19_Witness ==
    /\ mpc = "done" /\ Len(systemTxns) = 2 /\ Len(matches) = 2
    /\ Finders(1) # {} /\ Matcher[FirstFinder(1)].name = "exact"
    /\ matches[1].AmmountDiff = 0
    /\ Finders(2) # {} /\ Matcher[FirstFinder(2)].name = "fuzzy"
    /\ matches[2].BankTxn.Amount > Signed(matches[2].SystemTxn)
    /\ matches[2].AmmountDiff = Matcher[FirstFinder(2)].AmountThreshold

\* ------------------------------------- what the service's claims speak of
Succeeded == rpc = "returned" /\ result.err = <<"nil">>

\* the day of t lies in the requested window
InRequestedWindow(t) ==
    DayOf(svcStartDate) <= DayOf(t) /\ DayOf(t) <= DayOf(svcEndDate)

\* the unmatched statement records of the result, whatever their bank
UnmatchedStatements ==
    UNION {Range(result.res.UnMatchedBankTxns[b]) : b \in DOMAIN result.res.UnMatchedBankTxns}

\* what either ingestion returns is an outcome ConcurrentOutcomes lists
OutcomesCoverPipeline ==
    (mode = "conc" /\ pc = "returned") =>
        ret \in ConcurrentOutcomes(kind, file, bankID, startDate, endDate,
                                   numWorkers, batchSize)

\* C20: in the result of a successful Reconcile the ledger record of every
\* retained Match, every unmatched ledger record and every unmatched
\* statement record is dated, by day, inside the requested window.
C20_ResultInsideRequestedWindow ==
    Succeeded =>
        /\ \A m \in DOMAIN result.res.MatchedTxns :
              InRequestedWindow(result.res.MatchedTxns[m].SystemTxn.TransactionTime)
        /\ \A i \in DOMAIN result.res.UnMatchedSystemTxns :
              InRequestedWindow(result.res.UnMatchedSystemTxns[i].TransactionTime)
        /\ \A bankTxn \in UnmatchedStatements : InRequestedWindow(bankTxn.Date)

\* ingestion over the widened window brought in a ledger record and a
\* statement record dated outside the requested window; the ledger record
\* was matched, the Match was dropped and neither record is in the result,
\* which holds a retained Match
C20_Witness ==
    /\ Succeeded /\ dateBuffer > 0
    /\ \E m \in DOMAIN matches :
          /\ ~InRequestedWindow(matches[m].SystemTxn.TransactionTime)
          /\ matches[m] \notin Range(result.res.MatchedTxns)
    /\ \E i \in DOMAIN bankTxns : ~InRequestedWindow(bankTxns[i].Date)
    /\ result.res.MatchedTxns # <<>>

\* the Matches and the unmatched ledger records of the result
Retained == result.res.MatchedTxns

UnmatchedLedger == result.res.UnMatchedSystemTxns

\* C21: in the result of a successful Reconcile the statement record of every
\* retained Match is dated, by day, inside the requested window.
C21_RetainedStatementInsideWindow ==
    Succeeded =>
        \A m \in DOMAIN Retained : InRequestedWindow(Retained[m].BankTxn.Date)

\* a date-buffer strategy with the date buffer of the service is configured
BufferConfigured ==
    /\ dateBuffer >= 1
    /\ \E j \in DOMAIN Matcher :
          Matcher[j].name = "buffer" /\ Matcher[j].BufferDays = dateBuffer

\* the ingested statement records whose amount equals the comparable amount
\* of the k-th ingested ledger record, by their place
Counterparts(k) ==
    {i \in DOMAIN bankTxns : bankTxns[i].Amount = Signed(systemTxns[k])}

\* the day of t lies outside the requested window, by at most the date
\* buffer of the service
JustOutsideWindow(t) ==
    \/ DayOf(svcEndDate) < DayOf(t) /\ DayOf(t) <= DayOf(svcEndDate) + dateBuffer
    \/ DayOf(svcStartDate) - dateBuffer <= DayOf(t) /\ DayOf(t) < DayOf(svcStartDate)

\* a ledger record other than the k-th was matched to the statement record
\* with this (BankID, UniqID) pair
ClaimedByAnother(bankTxn, k) ==
    \E m \in DOMAIN matches :
        Pair(matches[m].BankTxn) = Pair(bankTxn) /\ matches[m].SystemTxn # systemTxns[k]

\* the k-th ingested ledger record is in a retained Match and is not listed
\* as unmatched
ReportedMatched(k) ==
    /\ \E m \in DOMAIN Retained : Retained[m].SystemTxn = systemTxns[k]
    /\ systemTxns[k] \notin Range(UnmatchedLedger)

\* C22: with a date buffer b >= 1 and a date-buffer strategy of b days, a
\* ledger record dated inside the requested window whose only amount-equal
\* statement record is dated up to b days outside the window, and is claimed
\* by no other ledger record, is reported in a retained Match and not as an
\* unmatched ledger record.
C22_BoundaryCrossingIsMatched ==
    (Succeeded /\ BufferConfigured) =>
        \A k \in DOMAIN systemTxns : \A i \in DOMAIN bankTxns :
            ( /\ InRequestedWindow(systemTxns[k].TransactionTime)
              /\ Counterparts(k) = {i}
              /\ JustOutsideWindow(bankTxns[i].Date)
              /\ ~ClaimedByAnother(bankTxns[i], k) )
            => ReportedMatched(k)

\* what holds of such a ledger record: it is reported matched when the
\* statement record lies within b days of the ledger record's own day and
\* the statement list holds no "BankID-UniqID" key twice
BoundaryCrossingWithinBufferOfLedgerDay ==
    (Succeeded /\ BufferConfigured /\ DistinctKeys) =>
        \A k \in DOMAIN systemTxns : \A i \in DOMAIN bankTxns :
            ( /\ InRequestedWindow(systemTxns[k].TransactionTime)
              /\ Counterparts(k) = {i}
              /\ ~InRequestedWindow(bankTxns[i].Date)
              /\ Distance(DayOf(bankTxns[i].Date), DayOf(systemTxns[k].TransactionTime))
                    <= dateBuffer
              /\ ~ClaimedByAnother(bankTxns[i], k) )
            => ReportedMatched(k)

\* a ledger record dated on the last day of the window was matched to its
\* only counterpart, dated the day after, and the Match was retained
BoundaryCrossingMet ==
    /\ Succeeded /\ BufferConfigured
    /\ \E k \in DOMAIN systemTxns : \E i \in DOMAIN bankTxns :
          /\ DayOf(systemTxns[k].TransactionTime) = DayOf(svcEndDate)
          /\ Counterparts(k) = {i}
          /\ DayOf(bankTxns[i].Date) = DayOf(svcEndDate) + 1
          /\ Len(bankTxns) > 1
          /\ ReportedMatched(k)

\* the identifiers of the ledger records of the retained Matches
RetainedIDs == {Retained[m].SystemTxn.TrxID : m \in DOMAIN Retained}

\* the ingested ledger records dated inside the requested window whose
\* identifier is in no retained Match, in ingestion order
LedgerLeftOver ==
    SelectSeq(systemTxns, LAMBDA txn :
        InRequestedWindow(txn.TransactionTime) /\ txn.TrxID \notin RetainedIDs)

InRetained(sysTxn) == \E m \in DOMAIN Retained : Retained[m].SystemTxn = sysTxn

\* the k-th ingested ledger record is in a retained Match or in the
\* unmatched-ledger list, and not in both
InExactlyOne(k) ==
    InRetained(systemTxns[k]) # (systemTxns[k] \in Range(UnmatchedLedger))

\* no other ingested ledger record carries the identifier of the k-th
OwnIdentifier(k) ==
    \A j \in DOMAIN systemTxns : j # k => systemTxns[j].TrxID # systemTxns[k].TrxID

\* C23 as stated: the unmatched-ledger list holds exactly the ingested ledger
\* records dated inside the requested window whose identifier is in no
\* retained Match, and every in-window ledger record is in exactly one of a
\* retained Match and the unmatched-ledger list.
C23_LedgerPartition ==
    Succeeded =>
        /\ BagOf(UnmatchedLedger) = BagOf(LedgerLeftOver)
        /\ \A k \in DOMAIN systemTxns :
              InRequestedWindow(systemTxns[k].TransactionTime) => InExactlyOne(k)

\* C23 as amended: the unmatched-ledger list holds exactly the ingested
\* ledger records dated inside the requested window whose identifier is in
\* no retained Match, and every in-window ledger record whose identifier no
\* other ingested ledger record carries is in exactly one of a retained Match
\* and the unmatched-ledger list.
C23_LedgerPartitionByIdentifier ==
    Succeeded =>
        /\ BagOf(UnmatchedLedger) = BagOf(LedgerLeftOver)
        /\ \A k \in DOMAIN systemTxns :
              (InRequestedWindow(systemTxns[k].TransactionTime) /\ OwnIdentifier(k))
                  => InExactlyOne(k)

\* of two ingested ledger records with identifiers of their own, both dated
\* inside the window, one is in a retained Match and the other is listed as
\* unmatched, beside a statement record that is left unmatched
C23_Witness ==
    /\ Succeeded /\ Len(systemTxns) = 2
    /\ \A k \in DOMAIN systemTxns :
          InRequestedWindow(systemTxns[k].TransactionTime) /\ OwnIdentifier(k)
    /\ InRetained(systemTxns[1]) /\ systemTxns[1] \notin Range(UnmatchedLedger)
    /\ ~InRetained(systemTxns[2]) /\ systemTxns[2] \in Range(UnmatchedLedger)
    /\ UnmatchedStatements # {}

\* the (BankID, UniqID) pairs of the statement records of the retained Matches
RetainedPairs == {Pair(Retained[m].BankTxn) : m \in DOMAIN Retained}

\* the ingested statement records dated inside the requested window whose
\* (BankID, UniqID) pair is in no retained Match, in ingestion order
StatementsLeftOver ==
    SelectSeq(bankTxns, LAMBDA txn :
        InRequestedWindow(txn.Date) /\ Pair(txn) \notin RetainedPairs)

UnmatchedByBank == result.res.UnMatchedBankTxns

\* the unmatched-statement mapping lists these statement records, each under
\* its own BankID, and nothing else
ListedByBank(leftOver) ==
    /\ \A i \in DOMAIN leftOver : leftOver[i].BankID \in DOMAIN UnmatchedByBank
    /\ \A b \in DOMAIN UnmatchedByBank :
          BagOf(UnmatchedByBank[b]) = BagOf(SelectSeq(leftOver, LAMBDA txn : txn.BankID = b))

\* C24: the unmatched-statement mapping of the result holds exactly the
\* ingested statement records dated inside the requested window whose
\* (BankID, UniqID) pair is in no retained Match, each once under its own
\* BankID, whatever the identifier strings.
C24_UnmatchedStatements ==
    Succeeded => ListedByBank(StatementsLeftOver)

\* what holds of the mapping: the same, over statement lists that hold no
\* "BankID-UniqID" key twice
UnmatchedStatementsOnDistinctKeys ==
    (Succeeded /\ DistinctKeys) => ListedByBank(StatementsLeftOver)

\* of the statement records of two banks one is in a retained Match and the
\* other is listed as unmatched under its bank
UnmatchedStatementsMet ==
    /\ Succeeded /\ DistinctKeys /\ Len(bankTxns) = 2
    /\ Retained # <<>> /\ DOMAIN UnmatchedByBank # {}

\* the places of the unmatched-statement mapping: a bank and a place in its
\* list
UnmatchedStatementPlaces ==
    UNION {{<<b, i>> : i \in DOMAIN UnmatchedByBank[b]} : b \in DOMAIN UnmatchedByBank}

\* C25: TotalTxnsProcessed is the number of retained Matches, each counted
\* once, plus the number of unmatched ledger records plus the number of
\* unmatched statement records over all banks.
C25_TotalProcessed ==
    Succeeded =>
        result.res.TotalTxnsProcessed =
            Len(Retained) + Len(UnmatchedLedger) + Cardinality(UnmatchedStatementPlaces)

\* a result with a retained Match, an unmatched ledger record and an
\* unmatched statement record counts three
C25_Witness ==
    /\ Succeeded
    /\ Len(Retained) = 1 /\ Len(UnmatchedLedger) = 1
    /\ Cardinality(UnmatchedStatementPlaces) = 1
    /\ result.res.TotalTxnsProcessed = 3

\* the Matches the matcher returned whose ledger record is dated inside the
\* requested window, and those it returned that are dated outside
MatchesInWindow ==
    SelectSeq(matches, LAMBDA match : InRequestedWindow(match.SystemTxn.TransactionTime))

DroppedMatches ==
    SelectSeq(matches, LAMBDA match : ~InRequestedWindow(match.SystemTxn.TransactionTime))

\* the sum of the distances between the comparable ledger amount and the
\* statement amount of these Matches
RECURSIVE DiscrepancySum(_)
DiscrepancySum(ms) ==
    IF ms = <<>> THEN 0
    ELSE Distance(Signed(ms[1].SystemTxn), ms[1].BankTxn.Amount) + DiscrepancySum(Tail(ms))

\* C26: TotalDiscrepancies is the sum of the discrepancies of the retained
\* Matches, those whose ledger record is dated inside the requested window;
\* a dropped Match adds nothing, and the total is zero when none is retained.
C26_TotalDiscrepancies ==
    Succeeded =>
        /\ Retained = MatchesInWindow
        /\ result.res.TotalDiscrepancies = DiscrepancySum(MatchesInWindow)
        /\ Retained = <<>> => result.res.TotalDiscrepancies = 0

\* a Match with a discrepancy was dropped beside a retained Match, and the
\* total leaves its discrepancy out
C26_Witness ==
    /\ Succeeded /\ Retained # <<>>
    /\ \E m \in DOMAIN DroppedMatches : DroppedMatches[m].AmmountDiff > 0
    /\ result.res.TotalDiscrepancies < DiscrepancySum(matches)

\* a retained Match with a discrepancy makes the total positive
RetainedDiscrepancyMet ==
    Succeeded /\ result.res.TotalDiscrepancies > 0

\* the feed cannot be ingested: it has no header or lacks an expected
\* column, a read fails, or a record has not the header's number of fields
Unreadable(knd, f) ==
    \/ f.header = <<>>
    \/ ~crateHeaderMap(f.header, HeaderFields(knd))[1]
    \/ f.ioFault
    \/ \E i \in DOMAIN f.rows : Len(f.rows[i]) # Len(f.header)

LedgerFeedFails == Unreadable("system", systemRepo)

SomeBankFeedFails == \E b \in DOMAIN bankRepos : Unreadable("bank", bankRepos[b])

\* C27: when the ingestion of the ledger feed or of a bank feed fails,
\* Reconcile returns an error with the empty ReconciliationResult, and the
\* matcher has not been called.
C27_FailedFeedAborts ==
    (rpc = "returned" /\ (LedgerFeedFails \/ SomeBankFeedFails)) =>
        /\ result.err # <<"nil">>
        /\ result.res = EmptyResult
        /\ mpc = "off" /\ matches = <<>>

\* the ledger feed and one bank feed hold a record and are readable, the
\* other bank feed fails: Reconcile returned the error of fetching bank
\* transactions and the empty result
C27_Witness ==
    /\ rpc = "returned"
    /\ ~LedgerFeedFails /\ systemRepo.rows # <<>>
    /\ \E b, c \in DOMAIN bankRepos :
          /\ ~Unreadable("bank", bankRepos[b]) /\ bankRepos[b].rows # <<>>
          /\ Unreadable("bank", bankRepos[c])
    /\ result.err[1] = "fetching bank transactions"
    /\ result.res = EmptyResult

\* a Reconcile over readable feeds succeeds
ReadableFeedsSucceed ==
    (rpc = "returned" /\ ~LedgerFeedFails /\ ~SomeBankFeedFails) => Succeeded

\* C28: in the result of a successful Reconcile the Match list, the
\* unmatched-ledger list and the unmatched-statement mapping are all present:
\* none of them is nil, also when it is empty.
C28_CollectionsPresent ==
    Succeeded => result.res.Nil = {}

\* what holds of the result: the unmatched-statement mapping, made by make,
\* is never nil, and a list is nil only when it is empty
MappingPresent ==
    Succeeded =>
        /\ "UnMatchedBankTxns" \notin result.res.Nil
        /\ "MatchedTxns" \in result.res.Nil <=> Retained = <<>>
        /\ "UnMatchedSystemTxns" \in result.res.Nil <=> UnmatchedLedger = <<>>

\* a negative date buffer of the service, or a negative threshold or buffer
\* of a configured strategy
NegativeParameter ==
    \/ dateBuffer < 0
    \/ \E j \in DOMAIN strategies :
          \/ strategies[j].name = "fuzzy" /\ strategies[j].AmountThreshold < 0
          \/ strategies[j].name = "buffer" /\ strategies[j].BufferDays < 0

\* C29: a service or strategy constructed with a negative parameter is
\* rejected with a configuration error: Reconcile returns neither a result
\* nor an ingestion error for it, and the matcher is not called.
C29_InvalidParametersRejected ==
    (rpc = "returned" /\ NegativeParameter) =>
        /\ result.err = <<"configuration">>
        /\ mpc = "off"

\* what the code does with a negative date buffer: it narrows the window of
\* the ingestion, so that no ledger record dated on the first or last day of
\* the requested window is ingested
NegativeBufferNarrowsIngestion ==
    (Succeeded /\ dateBuffer < 0) =>
        \A k \in DOMAIN systemTxns :
            /\ DayOf(systemTxns[k].TransactionTime) > DayOf(svcStartDate)
            /\ DayOf(systemTxns[k].TransactionTime) < DayOf(svcEndDate)

\* a Reconcile with a negative date buffer returned a result with a Match
NegativeBufferRan ==
    Succeeded /\ dateBuffer < 0 /\ matches # <<>>

\* the execution of Reconcile on the same feeds, strategies and window in
\* which the results of the batches are collected in the order the batches
\* were sent (the only order a single worker allows) and the bank
\* repositories are visited in one fixed order
ReferenceLedger ==
    (CHOOSE out \in ConcurrentOutcomes("system", systemRepo, "",
                        AddDate(svcStartDate, 0 - dateBuffer),
                        AddDate(svcEndDate, dateBuffer), 1, batchSize) : TRUE).txns

ReferenceOrder == CHOOSE order \in VisitOrders(DOMAIN bankRepos) : TRUE

ReferenceStatements ==
    LET outs == [b \in DOMAIN bankRepos |->
                    CHOOSE out \in ConcurrentOutcomes("bank", bankRepos[b], b,
                                       AddDate(svcStartDate, 0 - dateBuffer),
                                       AddDate(svcEndDate, dateBuffer), 1, batchSize) : TRUE]
    IN  GatherBankTxns(ReferenceOrder, outs, <<>>).txns

ReferenceResult ==
    LET ledger == ReferenceLedger
        statements == ReferenceStatements
    IN  BuildResult(FindMatches(Matcher, ledger, statements), ledger, statements,
                    svcStartDate, svcEndDate)

\* the unmatched statement records of a result, whatever their bank
StatementsOf(res) ==
    UNION {Range(res.UnMatchedBankTxns[b]) : b \in DOMAIN res.UnMatchedBankTxns}

\* C30: for given feeds, strategies and window every successful execution of
\* Reconcile yields the set of Matches and the unmatched partitions of the
\* reference execution, whatever the interleaving of the ingestion workers
\* and the order in which the bank repositories are visited.
C30_Deterministic ==
    Succeeded =>
        LET reference == ReferenceResult
        IN  /\ Range(Retained) = Range(reference.MatchedTxns)
            /\ Range(UnmatchedLedger) = Range(reference.UnMatchedSystemTxns)
            /\ StatementsOf(result.res) = StatementsOf(reference)

\* what every execution does agree on: the records that were ingested, as
\* collections, and with them the number of records the matcher is given
IngestedAlike ==
    Succeeded =>
        /\ BagOf(systemTxns) = BagOf(ReferenceLedger)
        /\ BagOf(bankTxns) = BagOf(ReferenceStatements)

\* an execution ingested the ledger records in another order than the
\* reference execution, and the statement records too
ReorderedMet ==
    /\ Succeeded
    /\ systemTxns # ReferenceLedger
    /\ bankTxns # ReferenceStatements

MatchedAgainMet ==
    /\ mpc = "again" /\ picked.found /\ Len(bankTxns) = 2

\* the error Reconcile returned names this bank feed
NamesBank(b) == b \in Range(result.err)

\* C32: when Reconcile fails on a feed that cannot be read, the error names
\* the feed: the ledger, by the text of fetching system transactions, or the
\* bank feed that failed, by its identifier.
C32_ErrorNamesFeed ==
    (rpc = "returned" /\ result.err # <<"nil">>) =>
        IF LedgerFeedFails
        THEN result.err[1] = "fetching system transactions"
        ELSE \E b \in DOMAIN bankRepos : Unreadable("bank", bankRepos[b]) /\ NamesBank(b)

\* what the error does tell: whether the ledger feed or some bank feed failed
ErrorNamesSide ==
    (rpc = "returned" /\ result.err # <<"nil">>) =>
        /\ LedgerFeedFails <=> result.err[1] = "fetching system transactions"
        /\ (~LedgerFeedFails /\ SomeBankFeedFails) <=> result.err[1] = "fetching bank transactions"

\* of two bank feeds the second fails on a record and the first is readable
BankErrorMet ==
    /\ rpc = "returned" /\ ~LedgerFeedFails
    /\ ~Unreadable("bank", bankRepos["a"]) /\ Unreadable("bank", bankRepos["a-b"])
    /\ result.err = <<"fetching bank transactions", "reading CSV record">>

\* the producer has read the feed to its end and closed jobs
ReadToEnd == prod = "done" /\ csvRead(file, pos).kind = "EOF"

SentAsBatches == ReadToEnd => sentJobs = Batches(file.rows, batchSize)

\* on a failed read the rows of the batch in the making are never sent
PartialBatchDropped ==
    /\ prod = "done" /\ csvRead(file, pos).kind = "err"
    /\ batch # <<>> /\ Len(Flatten(sentJobs)) < pos - 1

\* the workers the call started
Started == 1..numWorkers

ClosedStaysClosed ==
    [][ /\ jobsClosed => (jobsClosed' /\ sentJobs' = sentJobs /\ prod' = prod)
        /\ resultsClosed => (resultsClosed' /\ Len(results') <= Len(results) /\ closer' = closer) ]_vars

\* on the error path results is never closed: the collector has returned
\* and a worker stays blocked on its push
ResultsLeftOpen ==
    /\ pc = "returned" /\ ~resultsClosed /\ prod = "done"
    /\ \E w \in Started : wpc[w] = "push" /\ Len(results) = numWorkers

\* what the row processor makes of row i of the feed: no record or one
RowRecord(i) ==
    rowProcessorFn(kind, crateHeaderMap(file.header, HeaderFields(kind))[2], bankID, file.rows[i])

\* row i survives parsing and the date filter
Survives(i) ==
    /\ RowRecord(i) # <<>>
    /\ InRange(TxnTime(kind, RowRecord(i)[1]), startDate, endDate)

SurvivingRows == {i \in DOMAIN file.rows : Survives(i)}

\* the place among the survivors of surviving row i
Rank(i) == Cardinality({j \in SurvivingRows : j <= i})

\* C35: the sequential ingestion returns the surviving records in read
\* order: the record of a surviving row stands at the place the row has
\* among the surviving rows, so of two surviving rows the earlier one's
\* record comes first, and the first record is that of the first survivor.
C35_SequentialReadOrder ==
    (mode = "seq" /\ pc = "returned" /\ ret.err = "nil") =>
        /\ Len(ret.txns) = Cardinality(SurvivingRows)
        /\ \A i \in SurvivingRows : ret.txns[Rank(i)] = RowRecord(i)[1]

\* two rows with different records survive and a window was given
C35_Witness ==
    /\ mode = "seq" /\ pc = "returned" /\ ret.err = "nil"
    /\ Len(ret.txns) = 2 /\ ret.txns[1] # ret.txns[2]
    /\ SurvivingRows = {1, 2}

\* the first of two rows is dropped and the second returned alone
FirstSurvivorMet ==
    /\ mode = "seq" /\ pc = "returned" /\ ret.err = "nil"
    /\ SurvivingRows = {2} /\ Len(ret.txns) = 1

\* the statement record meets the exact criterion for the ledger record:
\* the same day and the ledger record's normalized amount
ExactCounterpart(sysTxn, bankTxn) ==
    /\ Truncate(bankTxn.Date) = Truncate(sysTxn.TransactionTime)
    /\ bankTxn.Amount = getNormalizedAmount(sysTxn)

\* the unmatched ledger records and unmatched statement records of the
\* result that are dated inside the requested window and stand in the exact
\* criterion to each other
UnmatchedExactPairs ==
    {p \in Range(UnmatchedLedger) \X UNION {Range(UnmatchedByBank[b]) : b \in DOMAIN UnmatchedByBank} :
        /\ InRequestedRange(p[1].TransactionTime, svcStartDate, svcEndDate)
        /\ InRequestedRange(p[2].Date, svcStartDate, svcEndDate)
        /\ ExactCounterpart(p[1], p[2])}

\* C36: with the exact strategy first, the result of a successful Reconcile
\* never holds an unmatched ledger record and an unmatched statement
\* record, both dated inside the requested window, of which the second
\* meets the exact criterion for the first.
C36_NoUnmatchedExactPair ==
    (Succeeded /\ NewDefaultMatcher(strategies)[1].name = "exact") => UnmatchedExactPairs = {}

\* the narrowing dropped no Match of the run
AllMatchesRetained == Len(Retained) = Len(matches)

\* C36, amended: with the exact strategy first, when the narrowing has
\* dropped no Match, the result of a successful Reconcile never holds an
\* unmatched ledger record and an unmatched statement record, both dated
\* inside the requested window, of which the second meets the exact
\* criterion for the first.
C36_NoUnmatchedExactPairWhenAllRetained ==
    (Succeeded /\ NewDefaultMatcher(strategies)[1].name = "exact" /\ AllMatchesRetained)
        => UnmatchedExactPairs = {}

\* an unmatched ledger record inside the window whose exact counterpart,
\* inside the window too, stands in a retained Match of another ledger record
C36_Witness ==
    /\ Succeeded /\ NewDefaultMatcher(strategies)[1].name = "exact" /\ AllMatchesRetained
    /\ \E i \in DOMAIN UnmatchedLedger : \E m \in DOMAIN Retained :
          /\ InRequestedRange(UnmatchedLedger[i].TransactionTime, svcStartDate, svcEndDate)
          /\ InRequestedRange(Retained[m].BankTxn.Date, svcStartDate, svcEndDate)
          /\ ExactCounterpart(UnmatchedLedger[i], Retained[m].BankTxn)
          /\ Retained[m].SystemTxn # UnmatchedLedger[i]

\* the exact counterpart of an unmatched ledger record was claimed, through
\* the date buffer, by a ledger record outside the window, and is reported
\* unmatched because that Match was dropped; no two claim keys collide
DroppedClaimLeavesExactPair ==
    /\ Succeeded /\ UnmatchedExactPairs # {} /\ ~AllMatchesRetained
    /\ \A i, j \in DOMAIN bankTxns : MatchKey(bankTxns[i]) = MatchKey(bankTxns[j]) => i = j

\* the ledger record at place k has no Match
LeftUnmatched(k) == \A m \in DOMAIN matches : matches[m].SystemTxn # systemTxns[k]

\* the statement record is claimed by the ledger record at place j through
\* a strategy other than the exact one
ClaimedNonExact(bankTxn, j) ==
    \E m \in DOMAIN matches :
        /\ matches[m].BankTxn = bankTxn
        /\ matches[m].SystemTxn = systemTxns[j]
        /\ ~ExactCounterpart(systemTxns[j], bankTxn)

\* the places k, j and the statement record of which the claim speaks: the
\* record at k has the statement record for exact counterpart and is left
\* unmatched while the record at j has claimed it otherwise
Overtaken ==
    {t \in (DOMAIN systemTxns) \X (DOMAIN systemTxns) \X Range(bankTxns) :
        /\ t[1] # t[2]
        /\ ExactCounterpart(systemTxns[t[1]], t[3])
        /\ LeftUnmatched(t[1])
        /\ ClaimedNonExact(t[3], t[2])}

\* C37: with the strategies in the order exact, fuzzy, date buffer, a ledger
\* record with a same-day statement record of its normalized amount is
\* never left unmatched while another ledger record has claimed that
\* statement record through the fuzzy or the date-buffer strategy.
C37_ExactCounterpartNotOvertaken ==
    mpc = "done" => Overtaken = {}

\* C37, amended: ... while a ledger record that comes after it in the
\* ledger order has claimed that statement record through the fuzzy or the
\* date-buffer strategy.
C37_NotOvertakenByLaterRecord ==
    mpc = "done" => \A t \in Overtaken : t[2] < t[1]

\* the second ledger record is left unmatched: the first one claimed its
\* exact counterpart through the fuzzy or the date-buffer strategy
C37_Witness ==
    /\ mpc = "done" /\ Len(systemTxns) = 2 /\ Len(matches) = 1
    /\ \E t \in Overtaken : t[1] = 2 /\ t[2] = 1

\* the first ledger record took its exact counterpart, which the second one
\* could have claimed through the fuzzy strategy
ExactTakenFirstMet ==
    /\ mpc = "done" /\ Len(systemTxns) = 2 /\ Len(bankTxns) = 1 /\ Len(matches) = 1
    /\ matches[1].SystemTxn = systemTxns[1]
    /\ ExactCounterpart(systemTxns[1], bankTxns[1])
    /\ FuzzyMatch(NewFuzzyMatchStrategy(defaultAmountThreshold), systemTxns[2], bankTxns).found

\* every goroutine of the ingestion call last made has terminated and the
\* call has returned
PipelineOver ==
    /\ pc = "returned"
    /\ prod = "done" /\ jobsClosed
    /\ \A w \in Started : wpc[w] = "done"
    /\ closer = "done" /\ resultsClosed

\* C38: in every execution of a Reconcile that succeeds, whenever Reconcile
\* is about to call the next bank repository or FindMatches, the producer,
\* every worker and the closer of the ingestion before it have terminated,
\* so no two ingestions run at once; and FindMatches is called, and the
\* result returned, only after every bank repository has been ingested.
C38_IngestionOverBeforeMatching ==
    /\ rpc \in {"banks", "match"} => PipelineOver
    /\ rpc = "match" => visited = DOMAIN bankRepos
    /\ (rpc = "returned" /\ result.err = <<"nil">>) =>
          /\ PipelineOver /\ mpc = "done"
          /\ visited = DOMAIN bankRepos

\* Reconcile has succeeded on two bank feeds ingested by two workers, and
\* has a Match
C38_Witness ==
    /\ rpc = "returned" /\ result.err = <<"nil">>
    /\ visited = {"a", "a-b"} /\ numWorkers = 2
    /\ Len(bankTxns) = 2 /\ Len(matches) >= 1

\* before FindMatches is called no goroutine but the caller's is alive
MatchAloneMet ==
    /\ rpc = "match" /\ Len(systemTxns) = 2 /\ Len(bankTxns) = 2 /\ numWorkers = 2

\* a Reconcile that failed leaves goroutines of the failed ingestion behind
FailedLeavesGoroutines ==
    /\ rpc = "returned" /\ result.err # <<"nil">>
    /\ \E w \in Started : wpc[w] # "done"

====
